---- MODULE Spec2Model ----
(***************************************************************************)
(* Model of two cores of the repository:                                   *)
(*   - the zone semantic checker, src/src/knot/zone/semantic-check.c       *)
(*   - the DNS-over-QUIC client,  src/src/utils/common/quic.c              *)
(* Each core has its own specification (SpecSem, SpecQuic) over one set of *)
(* variables; the variables of the other core stay at their initial value. *)
(***************************************************************************)
EXTENDS Integers, Sequences, FiniteSets, TLC

VARIABLES
    zone,        \* sem_checks_process argument: the zone contents, or NullZone
    optional,    \* sem_checks_process argument: semcheck_optional_t
    handler,     \* sem_checks_process argument: the sem_handler_t, or NullHandler
    sem_pc,      \* position in sem_checks_process
    level,       \* semchecks_data_t.level
    walk_i,      \* zone_contents_apply: index of the next node to visit
    sem_ret,     \* return value of sem_checks_process
    fatal0,      \* handler.fatal_error as the caller passed it in
    validator    \* what knot_dnssec_validate_zone gave to each call of verify_dnssec in this run

semvars == <<zone, optional, handler, sem_pc, level, walk_i, sem_ret, fatal0, validator>>

VARIABLES
    ctx,         \* the quic_ctx_t
    op,          \* the driver operation in progress and its position
    result,      \* what the last driver operation returned
    lib,         \* the QUIC library's connection: next stream id, streams written to,
                 \* unacknowledged stream data
    peer,        \* response bytes the peer has still to deliver on the stream
    now,         \* quic_timestamp(), in seconds
    used,        \* the caller's side: operations made, whether connect succeeded,
                 \* datagrams read in the operation in progress
    hist         \* record of what happened, for stating the properties

quicvars == <<ctx, op, result, lib, peer, now, used, hist>>

VARIABLES
    conf         \* conf(): the configuration database and its writing transactions

confvars == <<conf>>

----------------------------------------------------------------------------
(* Bounds of the zone inputs. *)

\* RRSets in the whole zone
MaxZoneRRSets == 3
\* records in a CNAME or DNAME RRSet
MaxRecs == 2
\* value of zone_node_t.children
MaxChildren == 2

----------------------------------------------------------------------------
(* The zone data model (zone_contents_t, zone_node_t, knot_rdataset_t).    *)

\* a NULL zone_contents_t pointer and a NULL sem_handler_t pointer
NullZone == [null |-> TRUE, dnssec |-> FALSE, nodes |-> <<>>]
NullHandler == [null |-> TRUE, log |-> <<>>, error |-> FALSE, fatal_error |-> FALSE]
NoInfo == "NULL"

RRTypes == {"SOA", "NS", "A", "AAAA", "CNAME", "DNAME", "NSEC", "RRSIG",
            "DS", "DNSKEY", "CDS", "CDNSKEY", "NSEC3PARAM"}

\* check_level_t
MANDATORY == "MANDATORY"
OPTIONAL == "OPTIONAL"
NSEC == "NSEC"
NSEC3 == "NSEC3"

\* node_rdataset(node, type): the RRSet's records, <<>> standing for NULL
node_rdataset(node, type) == node.rrs[type]

node_rrtype_exists(node, type) == node_rdataset(node, type) # <<>>

\* zone_node_t.rrset_count
rrset_count(node) == Cardinality({t \in RRTypes : node.rrs[t] # <<>>})

\* zone->apex is the first node of the in-order walk
ApexIdx == 1

\* sem_handler_t.cb: the callback appends one finding to the handler's log
cb(h, owner, code, info) ==
    [h EXCEPT !.log = Append(@, [owner |-> owner, code |-> code, info |-> info])]

KNOT_EOK == "KNOT_EOK"

Ok(h) == [h |-> h, ret |-> KNOT_EOK]

----------------------------------------------------------------------------
(* The check modules.  Each takes the zone z, the index n of the node, the *)
(* level mask and the handler h, and yields the handler after the check    *)
(* and the check's return value.                                           *)

\* the glue loop of check_delegation, from record i of the NS RRSet on
RECURSIVE delegation_glue(_, _, _, _, _)
delegation_glue(z, n, ns_rrs, i, h) ==
    IF i > Len(ns_rrs) THEN Ok(h)
    ELSE LET ns == ns_rrs[i]   \* result of zone_contents_find_dname for knot_ns_name(ns_rr)
             node == z.nodes[n]
             below == /\ ns.encloser # n
                      /\ z.nodes[ns.encloser].flags \cap {"DELEG", "NONAUTH"} # {}
             glue_node == IF ns.find = "ZONE_NAME_FOUND" THEN ns.glue ELSE ns.wildcard
             has_glue == /\ glue_node # 0
                         /\ \/ node_rrtype_exists(z.nodes[glue_node], "A")
                            \/ node_rrtype_exists(z.nodes[glue_node], "AAAA")
             h1 == IF has_glue THEN h ELSE cb(h, node.owner, "NS_GLUE", NoInfo)
         IN CASE ns.find = "KNOT_EOUTOFZONE" -> delegation_glue(z, n, ns_rrs, i + 1, h)
              [] ns.find = "ZONE_NAME_NOT_FOUND" ->
                      IF below THEN delegation_glue(z, n, ns_rrs, i + 1, h)
                      ELSE delegation_glue(z, n, ns_rrs, i + 1, h1)
              [] ns.find = "ZONE_NAME_FOUND" -> delegation_glue(z, n, ns_rrs, i + 1, h1)
              [] OTHER -> [h |-> h, ret |-> ns.find]

\* check_delegation(node, data)
check_delegation(z, n, lvl, h) ==
    LET node == z.nodes[n]
        ns_rrs == node_rdataset(node, "NS")
    IN IF ~("DELEG" \in node.flags \/ n = ApexIdx) THEN Ok(h)
       ELSE IF OPTIONAL \notin lvl /\ n # ApexIdx THEN Ok(h)
       ELSE IF ns_rrs = <<>> THEN Ok(cb(h, node.owner, "NS_APEX", NoInfo))
       ELSE delegation_glue(z, n, ns_rrs, 1, h)

\* dnssec_algorithm_digest_support
digest_support(digest_type) == digest_type \in {1, 2, 4}

\* digest_sizes with the SHA-384 length taken as 32
digest_sizes_short_sha384 == <<0, 20, 32, 32, 32>>

\* const uint16_t digest_sizes [] = { 0, 20, 32, 32, 48}, indexed from 0
digest_sizes == <<0, 20, 32, 32, 48>>

\* snprintf(info, sizeof(info), "(keytag %d)", keytag)
keytag_info(keytag) == <<"(keytag ", keytag, ")">>

RECURSIVE check_ds_loop(_, _, _, _)
check_ds_loop(node, dss, i, h) ==
    IF i > Len(dss) THEN Ok(h)
    ELSE LET ds == dss[i]
             info == keytag_info(ds.keytag)
             h1 == IF ~digest_support(ds.digest_type)
                   THEN cb(h, node.owner, "DS_RDATA_ALG", info)
                   ELSE IF digest_sizes[ds.digest_type + 1] # ds.digest_len
                        THEN cb(h, node.owner, "DS_RDATA_DIGLEN", info)
                        ELSE h
         IN check_ds_loop(node, dss, i + 1, h1)

check_ds(z, n, lvl, h) ==
    LET node == z.nodes[n]
        dss == node_rdataset(node, "DS")
    IN IF dss = <<>> THEN Ok(h) ELSE check_ds_loop(node, dss, 1, h)

\* the first loop of check_submission not skipping the delete CDNSKEY
RECURSIVE submission_cdnskeys_delete_checked(_, _, _, _, _)
submission_cdnskeys_delete_checked(node, cdnskeys, dnskeys, i, h) ==
    IF i > Len(cdnskeys) THEN h
    ELSE LET cdnskey == cdnskeys[i]
             match == \E j \in 1..Len(dnskeys) : dnskeys[j].key = cdnskey.key
             h1 == IF match THEN h
                   ELSE cb(h, node.owner, "CDNSKEY_NO_DNSKEY", NoInfo)
         IN submission_cdnskeys_delete_checked(node, cdnskeys, dnskeys, i + 1, h1)

\* first loop of check_submission: every CDNSKEY against the apex DNSKEYs
RECURSIVE submission_cdnskeys(_, _, _, _, _)
submission_cdnskeys(node, cdnskeys, dnskeys, i, h) ==
    IF i > Len(cdnskeys) THEN h
    ELSE LET cdnskey == cdnskeys[i]
             match == \E j \in 1..Len(dnskeys) : dnskeys[j].key = cdnskey.key
             h1 == IF cdnskey.del \/ match THEN h
                   ELSE cb(h, node.owner, "CDNSKEY_NO_DNSKEY", NoInfo)
         IN submission_cdnskeys(node, cdnskeys, dnskeys, i + 1, h1)

\* inner loop of the second loop: CDS cds against CDNSKEY j and the following;
\* yields "match", "nomatch" or the error of dnssec_key_create_ds
RECURSIVE cds_match(_, _, _)
cds_match(cds, cdnskeys, j) ==
    IF j > Len(cdnskeys) THEN "nomatch"
    ELSE LET cdnskey == cdnskeys[j]
         IN IF ~cdnskey.parsable THEN cds_match(cds, cdnskeys, j + 1)
            ELSE IF ~digest_support(cds.digest_type) THEN "DNSSEC_INVALID_DS_ALGORITHM"
            ELSE IF cds.key = cdnskey.key THEN "match"
            ELSE cds_match(cds, cdnskeys, j + 1)

\* second loop of check_submission: every CDS against the CDNSKEYs
RECURSIVE submission_cdss(_, _, _, _, _)
submission_cdss(node, cdss, cdnskeys, i, h) ==
    IF i > Len(cdss) THEN Ok(h)
    ELSE LET cds == cdss[i]
             m == cds_match(cds, cdnskeys, 1)
         IN IF cds.del THEN submission_cdss(node, cdss, cdnskeys, i + 1, h)
            ELSE IF m = "match" THEN submission_cdss(node, cdss, cdnskeys, i + 1, h)
            ELSE IF m = "nomatch"
                 THEN submission_cdss(node, cdss, cdnskeys, i + 1,
                                      cb(h, node.owner, "CDS_NOT_MATCH", NoInfo))
            ELSE [h |-> h, ret |-> m]

\* check_submission changed in one place: "absent" reports the RRSet that is
\* present instead of the absent one, "delete" accepts a delete record next to
\* other records, "orphan" reports CDNSKEY_NO_CDS also for equal counts
check_submission_changed(z, n, lvl, h, change) ==
    LET node == z.nodes[n]
        cdss == node_rdataset(node, "CDS")
        cdnskeys == node_rdataset(node, "CDNSKEY")
        dnskeys == node_rdataset(z.nodes[ApexIdx], "DNSKEY")
        h1 == IF dnskeys = <<>> THEN cb(h, node.owner, "DNSKEY_NONE", NoInfo) ELSE h
        h2 == submission_cdnskeys(node, cdnskeys, dnskeys, 1, h1)
        r3 == submission_cdss(node, cdss, cdnskeys, 1, h2)
        delete_cds == \E i \in 1..Len(cdss) : cdss[i].del
        delete_cdnskey == \E i \in 1..Len(cdnskeys) : cdnskeys[i].del
        h4 == IF \/ delete_cds /\ (~delete_cdnskey \/ (Len(cdss) > 1 /\ change # "delete"))
                 \/ delete_cdnskey /\ (~delete_cds \/ (Len(cdnskeys) > 1 /\ change # "delete"))
              THEN cb(r3.h, node.owner, "CDNSKEY_INVALID_DELETE", NoInfo)
              ELSE r3.h
        h5 == IF Len(cdss) < Len(cdnskeys) \/ (change = "orphan" /\ Len(cdss) = Len(cdnskeys))
              THEN cb(h4, node.owner, "CDNSKEY_NO_CDS", NoInfo)
              ELSE h4
        absent == IF change = "absent" THEN "CDNSKEY_NONE" ELSE "CDS_NONE"
        present == IF change = "absent" THEN "CDS_NONE" ELSE "CDNSKEY_NONE"
    IN IF cdss = <<>> /\ cdnskeys = <<>> THEN Ok(h)
       ELSE IF cdss = <<>> THEN Ok(cb(h, node.owner, absent, NoInfo))
       ELSE IF cdnskeys = <<>> THEN Ok(cb(h, node.owner, present, NoInfo))
       ELSE IF r3.ret # KNOT_EOK THEN r3
       ELSE Ok(h5)

check_submission_absent_swapped(z, n, lvl, h) == check_submission_changed(z, n, lvl, h, "absent")

check_submission_delete_lenient(z, n, lvl, h) == check_submission_changed(z, n, lvl, h, "delete")

check_submission_orphan_on_equal(z, n, lvl, h) == check_submission_changed(z, n, lvl, h, "orphan")

\* check_submission(node, data)
check_submission(z, n, lvl, h) ==
    LET node == z.nodes[n]
        cdss == node_rdataset(node, "CDS")
        cdnskeys == node_rdataset(node, "CDNSKEY")
        dnskeys == node_rdataset(z.nodes[ApexIdx], "DNSKEY")
        h1 == IF dnskeys = <<>> THEN cb(h, node.owner, "DNSKEY_NONE", NoInfo) ELSE h
        h2 == submission_cdnskeys(node, cdnskeys, dnskeys, 1, h1)
        r3 == submission_cdss(node, cdss, cdnskeys, 1, h2)
        delete_cds == \E i \in 1..Len(cdss) : cdss[i].del
        delete_cdnskey == \E i \in 1..Len(cdnskeys) : cdnskeys[i].del
        h4 == IF \/ delete_cds /\ (~delete_cdnskey \/ Len(cdss) > 1)
                 \/ delete_cdnskey /\ (~delete_cds \/ Len(cdnskeys) > 1)
              THEN cb(r3.h, node.owner, "CDNSKEY_INVALID_DELETE", NoInfo)
              ELSE r3.h
        h5 == IF Len(cdss) < Len(cdnskeys)
              THEN cb(h4, node.owner, "CDNSKEY_NO_CDS", NoInfo)
              ELSE h4
    IN IF cdss = <<>> /\ cdnskeys = <<>> THEN Ok(h)
       ELSE IF cdss = <<>> THEN Ok(cb(h, node.owner, "CDS_NONE", NoInfo))
       ELSE IF cdnskeys = <<>> THEN Ok(cb(h, node.owner, "CDNSKEY_NONE", NoInfo))
       ELSE IF r3.ret # KNOT_EOK THEN r3
       ELSE Ok(h5)

check_soa(z, n, lvl, h) ==
    LET node == z.nodes[n]
        soa_rrs == node_rdataset(node, "SOA")
    IN IF n # ApexIdx THEN Ok(h)
       ELSE IF soa_rrs = <<>>
            THEN Ok(cb([h EXCEPT !.error = TRUE], node.owner, "SOA_NONE", NoInfo))
            ELSE Ok(h)

\* check_cname with the RRSIG allowance left out of rrset_limit
check_cname_no_rrsig_allowance(z, n, lvl, h) ==
    LET node == z.nodes[n]
        cname_rrs == node_rdataset(node, "CNAME")
        rrset_limit == 1 + (IF node_rrtype_exists(node, "NSEC") THEN 1 ELSE 0)
        h1 == IF rrset_count(node) > rrset_limit
              THEN cb([h EXCEPT !.error = TRUE], node.owner, "CNAME_EXTRA_RECORDS", NoInfo)
              ELSE h
        h2 == IF Len(cname_rrs) # 1
              THEN cb([h1 EXCEPT !.error = TRUE], node.owner, "CNAME_MULTIPLE", NoInfo)
              ELSE h1
    IN IF cname_rrs = <<>> THEN Ok(h) ELSE Ok(h2)

check_cname(z, n, lvl, h) ==
    LET node == z.nodes[n]
        cname_rrs == node_rdataset(node, "CNAME")
        rrset_limit == 1 + (IF node_rrtype_exists(node, "NSEC") THEN 1 ELSE 0)
                         + (IF node_rrtype_exists(node, "RRSIG") THEN 1 ELSE 0)
        h1 == IF rrset_count(node) > rrset_limit
              THEN cb([h EXCEPT !.error = TRUE], node.owner, "CNAME_EXTRA_RECORDS", NoInfo)
              ELSE h
        h2 == IF Len(cname_rrs) # 1
              THEN cb([h1 EXCEPT !.error = TRUE], node.owner, "CNAME_MULTIPLE", NoInfo)
              ELSE h1
    IN IF cname_rrs = <<>> THEN Ok(h) ELSE Ok(h2)

\* check_dname granting the NSEC3 child allowance to every node, not only the apex
check_dname_allowance_everywhere(z, n, lvl, h) ==
    LET node == z.nodes[n]
        dname_rrs == node_rdataset(node, "DNAME")
        is_apex == "APEX" \in node.flags
        h1 == IF ~is_apex /\ node_rrtype_exists(node, "NS")
              THEN cb([h EXCEPT !.error = TRUE], node.owner, "DNAME_EXTRA_NS", NoInfo)
              ELSE h
        allowed_children == IF node.nsec3 THEN 1 ELSE 0
        h2 == IF node.children > allowed_children
              THEN cb([h1 EXCEPT !.error = TRUE], node.owner, "DNAME_CHILDREN", NoInfo)
              ELSE h1
        h3 == IF Len(dname_rrs) # 1
              THEN cb([h2 EXCEPT !.error = TRUE], node.owner, "DNAME_MULTIPLE", NoInfo)
              ELSE h2
    IN IF dname_rrs = <<>> THEN Ok(h) ELSE Ok(h3)

check_dname(z, n, lvl, h) ==
    LET node == z.nodes[n]
        dname_rrs == node_rdataset(node, "DNAME")
        is_apex == "APEX" \in node.flags
        h1 == IF ~is_apex /\ node_rrtype_exists(node, "NS")
              THEN cb([h EXCEPT !.error = TRUE], node.owner, "DNAME_EXTRA_NS", NoInfo)
              ELSE h
        allowed_children == IF is_apex /\ node.nsec3 THEN 1 ELSE 0
        h2 == IF node.children > allowed_children
              THEN cb([h1 EXCEPT !.error = TRUE], node.owner, "DNAME_CHILDREN", NoInfo)
              ELSE h1
        h3 == IF Len(dname_rrs) # 1
              THEN cb([h2 EXCEPT !.error = TRUE], node.owner, "DNAME_MULTIPLE", NoInfo)
              ELSE h2
    IN IF dname_rrs = <<>> THEN Ok(h) ELSE Ok(h3)

----------------------------------------------------------------------------
(* The level-aware dispatcher.                                             *)

\* CHECK_FUNCTIONS with check_ds registered as MANDATORY
CHECK_FUNCTIONS_ds_mandatory == <<
    [function |-> "check_soa",        level |-> {MANDATORY}],
    [function |-> "check_cname",      level |-> {MANDATORY}],
    [function |-> "check_dname",      level |-> {MANDATORY}],
    [function |-> "check_delegation", level |-> {MANDATORY}],
    [function |-> "check_ds",         level |-> {MANDATORY}],
    [function |-> "check_submission", level |-> {NSEC, NSEC3}] >>

\* CHECK_FUNCTIONS with check_submission registered for NSEC only
CHECK_FUNCTIONS_submission_nsec == <<
    [function |-> "check_soa",        level |-> {MANDATORY}],
    [function |-> "check_cname",      level |-> {MANDATORY}],
    [function |-> "check_dname",      level |-> {MANDATORY}],
    [function |-> "check_delegation", level |-> {MANDATORY}],
    [function |-> "check_ds",         level |-> {OPTIONAL}],
    [function |-> "check_submission", level |-> {NSEC}] >>

\* static const struct check_function CHECK_FUNCTIONS[]
CHECK_FUNCTIONS == <<
    [function |-> "check_soa",        level |-> {MANDATORY}],
    [function |-> "check_cname",      level |-> {MANDATORY}],
    [function |-> "check_dname",      level |-> {MANDATORY}],
    [function |-> "check_delegation", level |-> {MANDATORY}],
    [function |-> "check_ds",         level |-> {OPTIONAL}],
    [function |-> "check_submission", level |-> {NSEC, NSEC3}] >>

CHECK_FUNCTIONS_LEN == Len(CHECK_FUNCTIONS)

\* CHECK_FUNCTIONS[i].function(node, s_data)
call_check(f, z, n, lvl, h) ==
    CASE f = "check_soa" -> check_soa(z, n, lvl, h)
      [] f = "check_cname" -> check_cname(z, n, lvl, h)
      [] f = "check_dname" -> check_dname(z, n, lvl, h)
      [] f = "check_delegation" -> check_delegation(z, n, lvl, h)
      [] f = "check_ds" -> check_ds(z, n, lvl, h)
      [] f = "check_submission" -> check_submission(z, n, lvl, h)

\* the for loop of do_checks_in_tree without ret == KNOT_EOK in its condition:
\* every check of the level runs and the first error is returned
RECURSIVE do_checks_from_keep_going(_, _, _, _, _)
do_checks_from_keep_going(i, z, n, lvl, r) ==
    IF i > CHECK_FUNCTIONS_LEN THEN r
    ELSE IF CHECK_FUNCTIONS[i].level \cap lvl # {}
         THEN LET q == call_check(CHECK_FUNCTIONS[i].function, z, n, lvl, r.h)
              IN do_checks_from_keep_going(i + 1, z, n, lvl,
                     [h |-> q.h, ret |-> IF r.ret # KNOT_EOK THEN r.ret ELSE q.ret])
         ELSE do_checks_from_keep_going(i + 1, z, n, lvl, r)

\* the for loop of do_checks_in_tree, from check i on; r is the handler and ret so far
RECURSIVE do_checks_from(_, _, _, _, _)
do_checks_from(i, z, n, lvl, r) ==
    IF ~(r.ret = KNOT_EOK /\ i <= CHECK_FUNCTIONS_LEN) THEN r
    ELSE IF CHECK_FUNCTIONS[i].level \cap lvl # {}
         THEN do_checks_from(i + 1, z, n, lvl,
                             call_check(CHECK_FUNCTIONS[i].function, z, n, lvl, r.h))
         ELSE do_checks_from(i + 1, z, n, lvl, r)

do_checks_in_tree(z, n, lvl, h) == do_checks_from(1, z, n, lvl, Ok(h))

\* DNSSEC_NSEC3_ALGORITHM_SHA1
DNSSEC_NSEC3_ALGORITHM_SHA1 == 1

\* check_nsec3param taking every set flag bit for an error
check_nsec3param_any_flag(nsec3param, z, h) ==
    LET rdata == nsec3param[1]
        owner == z.nodes[ApexIdx].owner
        h1 == IF rdata.flags # 0
              THEN cb(h, owner, "NSEC3PARAM_RDATA_FLAGS", NoInfo)
              ELSE h
    IN IF rdata.alg # DNSSEC_NSEC3_ALGORITHM_SHA1
       THEN cb(h1, owner, "NSEC3PARAM_RDATA_ALG", NoInfo)
       ELSE h1

\* check_nsec3param: the findings (data->level |= NSEC3 is part of sem_level)
check_nsec3param(nsec3param, z, h) ==
    LET rdata == nsec3param[1]
        owner == z.nodes[ApexIdx].owner
        h1 == IF (rdata.flags \div 2) # 0
              THEN cb(h, owner, "NSEC3PARAM_RDATA_FLAGS", NoInfo)
              ELSE h
    IN IF rdata.alg # DNSSEC_NSEC3_ALGORITHM_SHA1
       THEN cb(h1, owner, "NSEC3PARAM_RDATA_ALG", NoInfo)
       ELSE h1

\* optional == SEMCHECK_DNSSEC || (optional == SEMCHECK_AUTO_DNSSEC && zone->dnssec)
dnssec_requested(z, opt) ==
    opt = "SEMCHECK_DNSSEC" \/ (opt = "SEMCHECK_AUTO_DNSSEC" /\ z.dnssec)

\* the level mask with NSEC set whenever DNSSEC checking is in effect
sem_level_nsec_always(z, opt) ==
    {MANDATORY}
    \cup (IF opt # "SEMCHECK_MANDATORY_ONLY" THEN {OPTIONAL} ELSE {})
    \cup (IF opt # "SEMCHECK_MANDATORY_ONLY" /\ dnssec_requested(z, opt)
          THEN (IF node_rdataset(z.nodes[ApexIdx], "NSEC3PARAM") # <<>>
                THEN {NSEC3, NSEC} ELSE {NSEC})
          ELSE {})

\* the level mask sem_checks_process computes before the walk
sem_level(z, opt) ==
    {MANDATORY}
    \cup (IF opt # "SEMCHECK_MANDATORY_ONLY" THEN {OPTIONAL} ELSE {})
    \cup (IF opt # "SEMCHECK_MANDATORY_ONLY" /\ dnssec_requested(z, opt)
          THEN (IF node_rdataset(z.nodes[ApexIdx], "NSEC3PARAM") # <<>>
                THEN {NSEC3} ELSE {NSEC})
          ELSE {})

\* err_dnssec2sem without the case of KNOT_DNSSEC_ENSEC_BITMAP
err_dnssec2sem_no_bitmap(err) ==
    CASE err = "KNOT_DNSSEC_ENOSIG" -> "RRSIG_UNVERIFIABLE"
      [] err = "KNOT_DNSSEC_ENSEC_CHAIN" -> "NSEC_RDATA_CHAIN"
      [] err = "KNOT_DNSSEC_ENSEC3_OPTOUT" -> "NSEC3_INSECURE_DELEGATION_OPT"
      [] OTHER -> "UNKNOWN"

\* err_dnssec2sem(err)
err_dnssec2sem(err) ==
    CASE err = "KNOT_DNSSEC_ENOSIG" -> "RRSIG_UNVERIFIABLE"
      [] err = "KNOT_DNSSEC_ENSEC_BITMAP" -> "NSEC_RDATA_BITMAP"
      [] err = "KNOT_DNSSEC_ENSEC_CHAIN" -> "NSEC_RDATA_CHAIN"
      [] err = "KNOT_DNSSEC_ENSEC3_OPTOUT" -> "NSEC3_INSECURE_DELEGATION_OPT"
      [] OTHER -> "UNKNOWN"

\* knot_rrtype_to_string: the mnemonic of a known type code, TYPE<n> otherwise
knot_rrtype_to_string(rrtype) ==
    CASE rrtype = 46 -> "RRSIG"
      [] rrtype = 47 -> "NSEC"
      [] rrtype = 48 -> "DNSKEY"
      [] rrtype = 50 -> "NSEC3"
      [] OTHER -> <<"TYPE", rrtype>>

NoHint == [node |-> "NULL", rrtype |-> 0]

\* verify_dnssec, given what knot_dnssec_validate_zone returned (ret) and left in
\* fake_up.validation_hint (hint)
verify_dnssec(z, h, ret, hint) ==
    IF hint.node # "NULL"
    THEN Ok(cb(h, hint.node, err_dnssec2sem(ret), knot_rrtype_to_string(hint.rrtype)))
    ELSE IF ret = "KNOT_INVALID_PUBLIC_KEY"
         THEN Ok(cb(h, z.nodes[ApexIdx].owner, "DNSKEY_INVALID", NoInfo))
         ELSE [h |-> h, ret |-> ret]

\* what knot_dnssec_validate_zone can return
ValidatorResults ==
    {"KNOT_EOK", "KNOT_DNSSEC_ENOSIG", "KNOT_DNSSEC_ENSEC_BITMAP", "KNOT_DNSSEC_ENSEC_CHAIN",
     "KNOT_DNSSEC_ENSEC3_OPTOUT", "KNOT_INVALID_PUBLIC_KEY", "KNOT_ENOMEM"}

\* type codes the validator may hint at: RRSIG, NSEC, and one without a mnemonic
HintTypes == {46, 47, 65280}

ValidatorHints(z) ==
    {NoHint} \cup {[node |-> z.nodes[i].owner, rrtype |-> t] : i \in 1..Len(z.nodes), t \in HintTypes}

----------------------------------------------------------------------------
(* sem_checks_process as a state machine: entry, one step of the walk per  *)
(* node, and the part after the walk.                                      *)

\* sem_checks_process testing the zone before the handler
sem_checks_process_zone_first ==
    /\ sem_pc = "start"
    /\ IF zone.null
       THEN /\ sem_ret' = "KNOT_EEMPTYZONE"
            /\ sem_pc' = "done"
            /\ UNCHANGED <<handler, level, walk_i>>
       ELSE IF handler.null
       THEN /\ sem_ret' = "KNOT_EINVAL"
            /\ sem_pc' = "done"
            /\ UNCHANGED <<handler, level, walk_i>>
       ELSE /\ level' = sem_level(zone, optional)
            /\ handler' = IF NSEC3 \in sem_level(zone, optional)
                          THEN check_nsec3param(
                                   node_rdataset(zone.nodes[ApexIdx], "NSEC3PARAM"),
                                   zone, handler)
                          ELSE handler
            /\ walk_i' = 1
            /\ sem_pc' = "walk"
            /\ UNCHANGED sem_ret
    /\ UNCHANGED <<zone, optional, fatal0, validator, quicvars, confvars>>

\* sem_checks_process with its data in static storage, set up by the first
\* call only: a later call goes on from where the walk before it stopped
sem_checks_process_enter_static_data ==
    /\ sem_pc = "start"
    /\ IF handler.null
       THEN /\ sem_ret' = "KNOT_EINVAL"
            /\ sem_pc' = "done"
            /\ UNCHANGED <<handler, level, walk_i>>
       ELSE IF zone.null
       THEN /\ sem_ret' = "KNOT_EEMPTYZONE"
            /\ sem_pc' = "done"
            /\ UNCHANGED <<handler, level, walk_i>>
       ELSE /\ level' = sem_level(zone, optional)
            /\ handler' = IF NSEC3 \in sem_level(zone, optional)
                          THEN check_nsec3param(
                                   node_rdataset(zone.nodes[ApexIdx], "NSEC3PARAM"),
                                   zone, handler)
                          ELSE handler
            /\ walk_i' = IF walk_i = 0 THEN 1 ELSE walk_i
            /\ sem_pc' = "walk"
            /\ UNCHANGED sem_ret
    /\ UNCHANGED <<zone, optional, fatal0, validator, quicvars, confvars>>

\* lines 579-611: argument validation, level mask, NSEC3PARAM sanity checks
sem_checks_process_enter ==
    /\ sem_pc = "start"
    /\ IF handler.null
       THEN /\ sem_ret' = "KNOT_EINVAL"
            /\ sem_pc' = "done"
            /\ UNCHANGED <<handler, level, walk_i>>
       ELSE IF zone.null
       THEN /\ sem_ret' = "KNOT_EEMPTYZONE"
            /\ sem_pc' = "done"
            /\ UNCHANGED <<handler, level, walk_i>>
       ELSE /\ level' = sem_level(zone, optional)
            /\ handler' = IF NSEC3 \in sem_level(zone, optional)
                          THEN check_nsec3param(
                                   node_rdataset(zone.nodes[ApexIdx], "NSEC3PARAM"),
                                   zone, handler)
                          ELSE handler
            /\ walk_i' = 1
            /\ sem_pc' = "walk"
            /\ UNCHANGED sem_ret
    /\ UNCHANGED <<zone, optional, fatal0, validator, quicvars, confvars>>

\* line 613: zone_contents_apply calls do_checks_in_tree on the next node in
\* order, and stops the walk at the first return value other than KNOT_EOK
zone_contents_apply_step ==
    /\ sem_pc = "walk"
    /\ walk_i <= Len(zone.nodes)
    /\ LET r == do_checks_in_tree(zone, walk_i, level, handler)
       IN /\ handler' = r.h
          /\ IF r.ret # KNOT_EOK
             THEN /\ sem_ret' = r.ret
                  /\ sem_pc' = "done"
                  /\ UNCHANGED walk_i
             ELSE /\ walk_i' = walk_i + 1
                  /\ UNCHANGED <<sem_ret, sem_pc>>
    /\ UNCHANGED <<zone, optional, level, fatal0, validator, quicvars, confvars>>

\* lines 614-626: after a walk that returned KNOT_EOK
sem_checks_process_finish ==
    /\ sem_pc = "walk"
    /\ walk_i > Len(zone.nodes)
    /\ sem_pc' = "done"
    /\ IF handler.fatal_error
       THEN /\ sem_ret' = "KNOT_ESEMCHECK"
            /\ UNCHANGED <<handler, validator>>
       ELSE IF dnssec_requested(zone, optional)
       THEN \E ret \in ValidatorResults, hint \in ValidatorHints(zone) :
                LET r == verify_dnssec(zone, handler, ret, hint)
                IN /\ handler' = r.h
                   /\ sem_ret' = r.ret
                   /\ validator' = Append(validator, [ret |-> ret, hint |-> hint])
       ELSE /\ sem_ret' = KNOT_EOK
            /\ UNCHANGED <<handler, validator>>
    /\ UNCHANGED <<zone, optional, level, walk_i, fatal0, quicvars, confvars>>

----------------------------------------------------------------------------
(* The configuration interface the tests drive: the writing transactions   *)
(* of conf()->io.  txn_stack holds one view per open transaction, the      *)
(* innermost last; io.txn is NULL when it is empty and &txn_stack[Len - 1] *)
(* otherwise.  A view is the value of server.version: <<>> or <<v>>.       *)

CONF_MAX_TXN_DEPTH == 5

\* calls of the configuration interface in one run
MaxConfCalls == 7
\* values set for server.version
MaxConfVal == 2

\* calls the caller remembers, the latest last
MaxConfLog == 3

ConfValues == 1..MaxConfVal

\* conf() before any transaction: nothing committed, the read view empty;
\* log is what the caller saw of its latest calls
NewConf == [txn_stack |-> <<>>, db |-> <<>>, read_txn |-> <<>>,
            call |-> [name |-> "none", child |-> FALSE], ret |-> "none", calls |-> 0,
            log |-> <<>>]

ConfIdle == conf = NewConf

\* the view of the active transaction, conf()->io.txn
txn_view(c) == c.txn_stack[Len(c.txn_stack)]

\* conf_io_begin without the limit on the nesting depth
conf_io_begin_unlimited(c, child, db_ok) ==
    IF c.txn_stack # <<>> /\ ~child THEN [conf |-> c, ret |-> "KNOT_CONF_ETXN"]
    ELSE IF c.txn_stack = <<>> /\ child THEN [conf |-> c, ret |-> "KNOT_CONF_ENOTXN"]
    ELSE IF ~db_ok THEN [conf |-> c, ret |-> "KNOT_ERROR"]
    ELSE [conf |-> [c EXCEPT !.txn_stack =
                       Append(@, IF c.txn_stack = <<>> THEN c.db ELSE txn_view(c))],
          ret |-> "KNOT_EOK"]

\* conf_io_begin(child); db_ok says whether the database starts the transaction
conf_io_begin(c, child, db_ok) ==
    IF c.txn_stack # <<>> /\ ~child THEN [conf |-> c, ret |-> "KNOT_CONF_ETXN"]
    ELSE IF c.txn_stack = <<>> /\ child THEN [conf |-> c, ret |-> "KNOT_CONF_ENOTXN"]
    ELSE IF Len(c.txn_stack) >= CONF_MAX_TXN_DEPTH
    THEN [conf |-> c, ret |-> "KNOT_CONF_EMANYTXN"]
    ELSE IF ~db_ok THEN [conf |-> c, ret |-> "KNOT_ERROR"]
    ELSE [conf |-> [c EXCEPT !.txn_stack =
                       Append(@, IF c.txn_stack = <<>> THEN c.db ELSE txn_view(c))],
          ret |-> "KNOT_EOK"]

\* the items a caller names besides server.version: no key0, a key that does
\* not exist, the non-group item include, an item given data it cannot take,
\* and include given a file that cannot be read
ConfItems == {"server.version", "NULL", "unknown", "include", "server.rate-limit",
              "include.invalid"}

\* conf_io_set(key0, key1, NULL, data, &io): item "server.version" with the
\* data v sets the value in the active transaction; every other item is
\* refused and the transaction stays as it is
conf_io_set(c, item, v) ==
    IF c.txn_stack = <<>> THEN [conf |-> c, ret |-> "KNOT_CONF_ENOTXN"]
    ELSE CASE item = "server.version" ->
                [conf |-> [c EXCEPT !.txn_stack[Len(c.txn_stack)] = <<v>>],
                 ret |-> "KNOT_EOK"]
           [] item = "NULL" -> [conf |-> c, ret |-> "KNOT_EINVAL"]
           [] item = "unknown" -> [conf |-> c, ret |-> "KNOT_YP_EINVAL_ITEM"]
           [] item = "include" -> [conf |-> c, ret |-> "KNOT_YP_ENODATA"]
           [] item = "server.rate-limit" -> [conf |-> c, ret |-> "KNOT_EINVAL"]
           [] OTHER -> [conf |-> c, ret |-> "KNOT_EFILE"]

\* the items conf_io_unset is called with
UnsetItems == {"server.version", "unknown", "include", "server.rate-limit"}

\* conf_io_unset(key0, key1, NULL, data): with data <<>> (NULL) the value of
\* server.version is removed from the active transaction, with data <<v>> it
\* is removed if it is v and KNOT_ENOENT is returned if it is not; the other
\* items are refused and the transaction stays as it is
conf_io_unset(c, item, data) ==
    IF c.txn_stack = <<>> THEN [conf |-> c, ret |-> "KNOT_CONF_ENOTXN"]
    ELSE CASE item = "server.version" ->
                IF data = <<>> \/ data = txn_view(c)
                THEN [conf |-> [c EXCEPT !.txn_stack[Len(c.txn_stack)] = <<>>],
                      ret |-> "KNOT_EOK"]
                ELSE [conf |-> c, ret |-> "KNOT_ENOENT"]
           [] item = "unknown" -> [conf |-> c, ret |-> "KNOT_YP_EINVAL_ITEM"]
           [] item = "include" -> [conf |-> c, ret |-> "KNOT_ENOTSUP"]
           [] OTHER -> [conf |-> c, ret |-> "KNOT_EINVAL"]

\* the stack without its innermost transaction
txn_parent(c) == SubSeq(c.txn_stack, 1, Len(c.txn_stack) - 1)

\* conf_io_commit that drops what the transaction wrote
conf_io_commit_dropping(c, child) ==
    IF c.txn_stack = <<>> \/ (child /\ Len(c.txn_stack) = 1)
    THEN [conf |-> c, ret |-> "KNOT_CONF_ENOTXN"]
    ELSE IF child
    THEN [conf |-> [c EXCEPT !.txn_stack = txn_parent(c)], ret |-> "KNOT_EOK"]
    ELSE [conf |-> [c EXCEPT !.txn_stack = <<>>], ret |-> "KNOT_EOK"]

\* conf_io_commit(child): a child is merged into its parent; the parent
\* transaction is committed to the database with all that is nested in it
conf_io_commit(c, child) ==
    IF c.txn_stack = <<>> \/ (child /\ Len(c.txn_stack) = 1)
    THEN [conf |-> c, ret |-> "KNOT_CONF_ENOTXN"]
    ELSE IF child
    THEN [conf |-> [c EXCEPT !.txn_stack =
                       [txn_parent(c) EXCEPT ![Len(c.txn_stack) - 1] = txn_view(c)]],
          ret |-> "KNOT_EOK"]
    ELSE [conf |-> [c EXCEPT !.txn_stack = <<>>, !.db = txn_view(c)], ret |-> "KNOT_EOK"]

\* conf_io_abort that keeps what the transaction wrote
conf_io_abort_merging(c, child) == conf_io_commit(c, child)

\* conf_io_abort(child): a child is dropped; the parent transaction is dropped
\* with all that is nested in it
conf_io_abort(c, child) ==
    IF c.txn_stack = <<>> \/ (child /\ Len(c.txn_stack) = 1)
    THEN [conf |-> c, ret |-> "KNOT_CONF_ENOTXN"]
    ELSE IF child
    THEN [conf |-> [c EXCEPT !.txn_stack = txn_parent(c)], ret |-> "KNOT_EOK"]
    ELSE [conf |-> [c EXCEPT !.txn_stack = <<>>], ret |-> "KNOT_EOK"]

\* conf_refresh(conf()): the read-only transaction is renewed and reads what
\* is committed
conf_refresh(c) == [conf |-> [c EXCEPT !.read_txn = c.db], ret |-> "KNOT_EOK"]

\* conf_get_txn(conf(), conf()->io.txn, C_SERVER, C_VERSION) as the caller sees
\* it: the depth of the active transaction and the value it reads
conf_get_txn(c) ==
    [depth |-> Len(c.txn_stack),
     val |-> IF c.txn_stack = <<>> THEN <<>> ELSE txn_view(c)]

----------------------------------------------------------------------------
(* The zones the checker is run on.                                        *)

SimpleRdata(i) == [id |-> i]

\* an NS record whose target is out of the zone
NsOutOfZone == [find |-> "KNOT_EOUTOFZONE", glue |-> 0, encloser |-> ApexIdx, wildcard |-> 0]

Records(t, cnt) ==
    IF t = "NS" THEN <<NsOutOfZone>>
    ELSE IF t \in {"CNAME", "DNAME"} THEN [i \in 1..cnt |-> SimpleRdata(i)]
    ELSE <<SimpleRdata(1)>>

\* a node with the RRSets of the given types; cnt records in CNAME and DNAME
Node(owner, flags, types, cnt, children, nsec3) ==
    [owner |-> owner, flags |-> flags, nsec3 |-> nsec3, children |-> children,
     rrs |-> [t \in RRTypes |-> IF t \in types THEN Records(t, cnt) ELSE <<>>]]

ApexTypes == {"SOA", "NS", "CNAME", "DNAME"}
OtherTypes == {"NS", "A", "CNAME", "DNAME", "NSEC", "RRSIG"}

RecCounts(types) == IF types \cap {"CNAME", "DNAME"} # {} THEN 1..MaxRecs ELSE {1}
ChildCounts(types) == IF "DNAME" \in types THEN 0..MaxChildren ELSE {0}
Nsec3Links(types) == IF "DNAME" \in types THEN BOOLEAN ELSE {FALSE}

\* zones of an apex and one more node, with at most MaxZoneRRSets RRSets; the
\* fields only check_dname reads vary on the nodes that hold a DNAME
StructZones ==
    UNION { { [null |-> FALSE, dnssec |-> FALSE,
               nodes |-> << Node("example.", {"APEX"}, ta, ca, cha, na),
                            Node("a.example.", IF "NS" \in tb THEN {"DELEG"} ELSE {},
                                 tb, cb_, chb, nb) >>] :
              ca \in RecCounts(ta), cha \in ChildCounts(ta), na \in Nsec3Links(ta),
              cb_ \in RecCounts(tb), chb \in ChildCounts(tb), nb \in Nsec3Links(tb) } :
            <<ta, tb>> \in { p \in (SUBSET ApexTypes) \X (SUBSET OtherTypes) :
                               Cardinality(p[1]) + Cardinality(p[2]) <= MaxZoneRRSets } }

Options == {"SEMCHECK_MANDATORY_ONLY", "SEMCHECK_FULL", "SEMCHECK_DNSSEC", "SEMCHECK_AUTO_DNSSEC"}

NewHandler(fatal) == [null |-> FALSE, log |-> <<>>, error |-> FALSE, fatal_error |-> fatal]

\* zone->dnssec is read only under SEMCHECK_AUTO_DNSSEC
DnssecFlags(opt) == IF opt = "SEMCHECK_AUTO_DNSSEC" THEN BOOLEAN ELSE {FALSE}

EmptyZones == {z \in StructZones : rrset_count(z.nodes[ApexIdx]) = 0
                                   /\ rrset_count(z.nodes[2]) = 0}

SemInit ==
    /\ optional \in Options
    /\ \/ /\ zone \in {[z EXCEPT !.dnssec = d] : z \in StructZones, d \in DnssecFlags(optional)}
          /\ handler \in {NewHandler(f) : f \in BOOLEAN}
       \/ /\ zone = NullZone
          /\ handler \in {NewHandler(FALSE), NullHandler}
       \/ /\ zone \in EmptyZones
          /\ handler = NullHandler
    /\ sem_pc = "start"
    /\ level = {}
    /\ walk_i = 0
    /\ sem_ret = "none"
    /\ fatal0 = handler.fatal_error
    /\ validator = <<>>

SemNext ==
    \/ sem_checks_process_enter
    \/ zone_contents_apply_step
    \/ sem_checks_process_finish

\* no zone is being checked
SemIdle ==
    /\ optional = "SEMCHECK_MANDATORY_ONLY"
    /\ zone = NullZone
    /\ handler = NullHandler
    /\ sem_pc = "done"
    /\ level = {}
    /\ walk_i = 0
    /\ sem_ret = "none"
    /\ fatal0 = FALSE
    /\ validator = <<>>

----------------------------------------------------------------------------
(* The DoQ client: quic_ctx_t and the callbacks the QUIC library invokes.  *)

\* driver operations per connection, connect included
MaxOps == 3
\* datagrams read during one driver operation
MaxPackets == 1
\* callbacks invoked while one datagram is read
MaxCallbacks == 2
\* responses the peer sends on the stream
MaxMsgs == 2
\* bytes of a DNS message (query or response)
MaxMsgLen == 1
\* bytes handed to one recv_stream_data callback
MaxChunk == 3
\* bidirectional streams the library lets the client open
MaxStreams == 2
\* last value of the clock, in seconds
MaxTime == 1
\* tls->wait, in seconds
WaitSecs == 1

\* the ECN bits in the control message of a received datagram, and in the
\* marking of a packet the library writes
EcnValues == {0, 2}

\* ngtcp2 library error codes
NGTCP2_ERR_DROP_CONN == -242
NGTCP2_ERR_FATAL == -500
NGTCP2_ERR_NOMEM == -501
NGTCP2_ERR_CALLBACK_FAILURE == -502
NGTCP2_ERR_PROTO == -205

\* ngtcp2_err_is_fatal
ngtcp2_err_is_fatal(liberr) == liberr < NGTCP2_ERR_FATAL

\* size of the datagram recvmsg returns
DatagramSize == 1200

NoStream == -1

\* ngtcp2_connection_close_error set by set_application_error
set_application_error(c, error, reason) ==
    [c EXCEPT !.last_err = [type |-> "APPLICATION", error_code |-> error, reason |-> reason]]

\* ngtcp2_connection_close_error set by set_transport_error
set_transport_error(c, error, reason) ==
    [c EXCEPT !.last_err = [type |-> "TRANSPORT", error_code |-> error, reason |-> reason]]

\* quic_timeout comparing strictly
quic_timeout_strict(ts, wait) == ts + wait < now

\* quic_timeout(ts, wait)
quic_timeout(ts, wait) == ts + wait <= now

\* the 2-byte length prefix of a frame, network byte order
be16(n) == <<n \div 256, n % 256>>

\* the DoQ frame of a message
Frame(msg) == be16(Len(msg)) \o msg

\* tcp_inbuf_update: append data to the inbound buffer and cut the complete
\* length-prefixed messages off its front; yields the new buffer and the
\* messages completed by this call (the out parameters are written anew)
RECURSIVE inbuf_parse(_, _)
inbuf_parse(bytes, msgs) ==
    IF Len(bytes) < 2 THEN [buffer |-> bytes, inbufs |-> msgs]
    ELSE LET n == bytes[1] * 256 + bytes[2]
         IN IF Len(bytes) < 2 + n THEN [buffer |-> bytes, inbufs |-> msgs]
            ELSE inbuf_parse(SubSeq(bytes, 3 + n, Len(bytes)),
                             Append(msgs, SubSeq(bytes, 3, 2 + n)))

tcp_inbuf_update(buffer, data) == inbuf_parse(buffer \o data, <<>>)

\* recv_stream_data_cb parsing each chunk on its own, keeping no partial frame
\* between calls
recv_stream_data_cb_no_carry(c, stream_id, data, inbuf) ==
    IF stream_id # c.stream_id THEN [ctx |-> c, ret |-> 0]
    ELSE IF inbuf # "KNOT_EOK" THEN [ctx |-> c, ret |-> NGTCP2_ERR_CALLBACK_FAILURE]
    ELSE LET r == tcp_inbuf_update(<<>>, data)
         IN [ctx |-> [c EXCEPT !.in_storage = <<>>,
                               !.out_storage = r.inbufs,
                               !.timestamp = now,
                               !.out_storage_it = 0],
             ret |-> 0]

\* recv_stream_data_cb: feed the current stream's data to the inbound buffer;
\* inbuf is what tcp_inbuf_update returns, and when it fails the callback
\* fails with the context as it was
recv_stream_data_cb(c, stream_id, data, inbuf) ==
    IF stream_id # c.stream_id THEN [ctx |-> c, ret |-> 0]
    ELSE IF inbuf # "KNOT_EOK" THEN [ctx |-> c, ret |-> NGTCP2_ERR_CALLBACK_FAILURE]
    ELSE LET r == tcp_inbuf_update(c.in_storage, data)
         IN [ctx |-> [c EXCEPT !.in_storage = r.buffer,
                               !.out_storage = r.inbufs,
                               !.timestamp = now,
                               !.out_storage_it = 0],
             ret |-> 0]

\* what is read through last_err.reason once stream_open_cb has returned: the
\* pointer is to the callback's local array, whose bytes may or may not still
\* be the message
StaleReasons == {"Server can't open streams.", "indeterminate"}

\* stream_open_cb; reason is what the pointer stored in last_err.reason leads
\* to after the return
stream_open_cb(c, stream_id, reason) ==
    IF stream_id % 4 # 0
    THEN [ctx |-> set_application_error(c, "DOQ_PROTOCOL_ERROR", reason),
          ret |-> NGTCP2_ERR_CALLBACK_FAILURE]
    ELSE [ctx |-> c, ret |-> 0]

acked_stream_data_offset_cb(c, stream_id, datalen) ==
    IF c.stream_id = stream_id
    THEN [ctx |-> [c EXCEPT !.sent = @ - datalen], ret |-> 0]
    ELSE [ctx |-> c, ret |-> 0]

stream_close_cb(c, stream_id) ==
    IF stream_id = c.stream_id
    THEN [ctx |-> [c EXCEPT !.stream_id = NoStream], ret |-> 0]
    ELSE [ctx |-> c, ret |-> 0]

\* results of ngtcp2_conn_open_bidi_stream the library can give in state l
OpenResults(l) ==
    (IF l.next_id < 4 * MaxStreams THEN {"0"} ELSE {})
    \cup {"NGTCP2_ERR_STREAM_ID_BLOCKED", "NGTCP2_ERR_NOMEM"}

\* quic_open_bidi_stream without the test for a stream that is already open
quic_open_bidi_stream_always(c, l, res) ==
    CASE res = "0" ->
            [ctx |-> [c EXCEPT !.stream_id = l.next_id],
             lib |-> [l EXCEPT !.next_id = @ + 4],
             ret |-> "KNOT_EOK"]
      [] res = "NGTCP2_ERR_STREAM_ID_BLOCKED" ->
            [ctx |-> c, lib |-> l, ret |-> "KNOT_EBUSY"]
      [] OTHER -> [ctx |-> c, lib |-> l, ret |-> "KNOT_ENOMEM"]

\* quic_open_bidi_stream, given the result res of ngtcp2_conn_open_bidi_stream
quic_open_bidi_stream(c, l, res) ==
    IF c.stream_id # NoStream THEN [ctx |-> c, lib |-> l, ret |-> "KNOT_EOK"]
    ELSE CASE res = "0" ->
                 [ctx |-> [c EXCEPT !.stream_id = l.next_id],
                  lib |-> [l EXCEPT !.next_id = @ + 4],
                  ret |-> "KNOT_EOK"]
           [] res = "NGTCP2_ERR_STREAM_ID_BLOCKED" ->
                 [ctx |-> c, lib |-> l, ret |-> "KNOT_EBUSY"]
           [] OTHER -> [ctx |-> c, lib |-> l, ret |-> "KNOT_ENOMEM"]

extend_max_bidi_streams_cb(c, l, max_streams, res) ==
    IF max_streams > 0
    THEN LET r == quic_open_bidi_stream(c, l, res)
         IN [ctx |-> r.ctx, lib |-> r.lib,
             ret |-> IF r.ret # "KNOT_EOK" THEN NGTCP2_ERR_CALLBACK_FAILURE ELSE 0]
    ELSE [ctx |-> c, lib |-> l, ret |-> 0]

handshake_confirmed_cb(c) == [ctx |-> [c EXCEPT !.state = "CONNECTED"], ret |-> 0]

\* a secret handed to secret_func: none, one whose key installs, one whose
\* key does not
SecretInstalls == {"NULL", "ok", "fail"}

\* secret_func; application says whether the level is
\* NGTCP2_CRYPTO_LEVEL_APPLICATION, rx and tx are the two secrets
secret_func(c, l, application, rx, tx, res) ==
    IF rx = "fail" THEN [ctx |-> c, lib |-> l, ret |-> -1]
    ELSE LET r == IF rx = "ok" /\ application
                  THEN quic_open_bidi_stream(c, l, res)
                  ELSE [ctx |-> c, lib |-> l, ret |-> "KNOT_EOK"]
         IN [ctx |-> r.ctx, lib |-> r.lib, ret |-> IF tx = "fail" THEN -1 ELSE 0]

\* alert_read_func: NGTCP2_CRYPTO_ERROR | alert
alert_read_func(c, alert) ==
    [ctx |-> set_transport_error(c, <<"NGTCP2_CRYPTO_ERROR", alert>>, "NULL"), ret |-> 0]

\* packets ngtcp2_conn_writev_stream writes, and quic_send_data sends, before
\* the pass of the loop that ends the call
MaxWritten == 1

\* results of ngtcp2_conn_writev_stream that end the loop of quic_send_data
LibEnds == {"0", "NGTCP2_ERR_STREAM_DATA_BLOCKED", "NGTCP2_ERR_NOMEM",
            "NGTCP2_ERR_STREAM_SHUT_WR", "NGTCP2_ERR_PROTO"}

\* a packet was written and a call after it ends the loop: setsockopt fails,
\* the address family is neither AF_INET nor AF_INET6, or sendmsg fails
SocketEnds == {"setsockopt", "KNOT_ENOTSUP", "sendmsg"}

\* one run of the loop of quic_send_data: pkts packets are written and sent,
\* the library marks them with ecn, and then the pass named by end returns
WriterResults ==
    {w \in [pkts : 0..MaxWritten, ecn : EcnValues, end : LibEnds \cup SocketEnds] :
        (w.pkts = 0 /\ w.end \in LibEnds) => w.ecn = 0}

\* ngtcp2_conn_writev_stream wrote a packet in the run w
packet_written(w) == w.pkts > 0 \/ w.end \in SocketEnds

\* stream data the library takes from the data vector (datalen bytes, 0 for NULL)
\* when the first writev_stream call yields a packet
lib_write(c, l, datalen) ==
    IF datalen > 0 /\ c.stream_id # NoStream
    THEN [l EXCEPT !.unacked[c.stream_id] = @ + datalen,
                   !.queried = @ \cup {c.stream_id}]
    ELSE l

\* quic_send_data that takes STREAM_DATA_BLOCKED as any other error of the
\* library
quic_send_data_blocked_fails(c, l, datalen, w) ==
    LET c1 == IF packet_written(w) THEN [c EXCEPT !.ecn = w.ecn] ELSE c
        l1 == IF packet_written(w) THEN lib_write(c, l, datalen) ELSE l
    IN CASE w.end = "0" -> [ctx |-> c1, lib |-> l1, ret |-> "KNOT_EOK"]
         [] w.end = "NGTCP2_ERR_NOMEM" -> [ctx |-> c1, lib |-> l1, ret |-> "KNOT_ENOMEM"]
         [] w.end = "NGTCP2_ERR_STREAM_SHUT_WR" ->
                [ctx |-> set_transport_error([c1 EXCEPT !.stream_id = NoStream],
                                             <<"infer", w.end>>, "NULL"),
                 lib |-> l1, ret |-> "KNOT_NET_ESEND"]
         [] w.end = "setsockopt" -> [ctx |-> c1, lib |-> l1, ret |-> "knot_map_errno"]
         [] w.end = "KNOT_ENOTSUP" -> [ctx |-> c1, lib |-> l1, ret |-> "KNOT_ENOTSUP"]
         [] w.end = "sendmsg" -> [ctx |-> c1, lib |-> l1, ret |-> "KNOT_NET_ESEND"]
         [] OTHER ->
                [ctx |-> set_transport_error(c1, <<"infer", w.end>>, "NULL"),
                 lib |-> l1, ret |-> "KNOT_NET_ESEND"]

\* quic_send_data with a data vector of datalen bytes (0 for NULL), given the
\* run w of its loop: the first packet takes the data vector, every packet
\* leaves its ECN marking in ctx->pi, and the last pass decides the return
\* value
quic_send_data(c, l, datalen, w) ==
    LET c1 == IF packet_written(w) THEN [c EXCEPT !.ecn = w.ecn] ELSE c
        l1 == IF packet_written(w) THEN lib_write(c, l, datalen) ELSE l
    IN CASE w.end = "0" -> [ctx |-> c1, lib |-> l1, ret |-> "KNOT_EOK"]
         [] w.end = "NGTCP2_ERR_STREAM_DATA_BLOCKED" ->
                [ctx |-> c1, lib |-> l1, ret |-> "KNOT_EOK"]
         [] w.end = "NGTCP2_ERR_NOMEM" -> [ctx |-> c1, lib |-> l1, ret |-> "KNOT_ENOMEM"]
         [] w.end = "NGTCP2_ERR_STREAM_SHUT_WR" ->
                [ctx |-> set_transport_error([c1 EXCEPT !.stream_id = NoStream],
                                             <<"infer", w.end>>, "NULL"),
                 lib |-> l1, ret |-> "KNOT_NET_ESEND"]
         [] w.end = "setsockopt" -> [ctx |-> c1, lib |-> l1, ret |-> "knot_map_errno"]
         [] w.end = "KNOT_ENOTSUP" -> [ctx |-> c1, lib |-> l1, ret |-> "KNOT_ENOTSUP"]
         [] w.end = "sendmsg" -> [ctx |-> c1, lib |-> l1, ret |-> "KNOT_NET_ESEND"]
         [] OTHER ->
                [ctx |-> set_transport_error(c1, <<"infer", w.end>>, "NULL"),
                 lib |-> l1, ret |-> "KNOT_NET_ESEND"]

\* quic_send(ctx, sockfd, family)
quic_send(c, l, w) == quic_send_data(c, l, 0, w)

\* the end of quic_recv: recvmsg returned nwrite bytes, ngtcp2_conn_read_pkt ret
quic_recv(c, nwrite, ret) ==
    IF ret # 0
    THEN [ctx |-> IF nwrite = NGTCP2_ERR_DROP_CONN THEN [c EXCEPT !.state = "CLOSED"]
                  ELSE IF ngtcp2_err_is_fatal(nwrite) THEN set_transport_error(c, nwrite, "NULL")
                  ELSE c,
          ret |-> "KNOT_NET_ERECV"]
    ELSE [ctx |-> c, ret |-> "KNOT_EOK"]

\* a message longer than the buffer is skipped
quic_respcpy_skipping(c, buf_len) ==
    IF c.out_storage # <<>> /\ c.out_storage_it < Len(c.out_storage)
    THEN LET msg == c.out_storage[c.out_storage_it + 1]
             it == c.out_storage_it + 1
             c1 == IF it = Len(c.out_storage)
                   THEN [c EXCEPT !.out_storage_it = it, !.out_storage = <<>>]
                   ELSE [c EXCEPT !.out_storage_it = it]
         IN IF buf_len < Len(msg)
            THEN [ctx |-> c1, ret |-> "KNOT_ENOMEM", len |-> 0, msg |-> <<>>]
            ELSE [ctx |-> c1, ret |-> IF Len(msg) = 0 THEN "0" ELSE "LEN",
                  len |-> Len(msg), msg |-> msg]
    ELSE [ctx |-> c, ret |-> "0", len |-> 0, msg |-> <<>>]

\* quic_respcpy into a buffer of buf_len bytes: the return value (the length, or
\* the error) and the message copied; the length of an empty message is 0,
\* the value returned when there is no message
quic_respcpy(c, buf_len) ==
    IF c.out_storage # <<>> /\ c.out_storage_it < Len(c.out_storage)
    THEN LET msg == c.out_storage[c.out_storage_it + 1]
             it == c.out_storage_it + 1
         IN IF buf_len < Len(msg)
            THEN [ctx |-> c, ret |-> "KNOT_ENOMEM", len |-> 0, msg |-> <<>>]
            ELSE [ctx |-> IF it = Len(c.out_storage)
                          THEN [c EXCEPT !.out_storage_it = it, !.out_storage = <<>>]
                          ELSE [c EXCEPT !.out_storage_it = it],
                  ret |-> IF Len(msg) = 0 THEN "0" ELSE "LEN",
                  len |-> Len(msg), msg |-> msg]
    ELSE [ctx |-> c, ret |-> "0", len |-> 0, msg |-> <<>>]

\* the memory of a context the caller has zeroed
ZeroCtx ==
    [state |-> "OPENING", stream_id |-> 0, sent |-> 0,
     in_storage |-> <<>>, out_storage |-> <<>>, out_storage_it |-> 0,
     last_err |-> [type |-> "TRANSPORT", error_code |-> "DOQ_NO_ERROR", reason |-> "NULL"],
     ecn |-> 0, timestamp |-> 0]

\* quic_ctx_init on the context c: args is "NULL" when one of the arguments
\* is, secret is what quic_generate_secret returns; the fields not assigned
\* keep what c held
quic_ctx_init(c, args, secret) ==
    IF args = "NULL" THEN [ctx |-> c, ret |-> "KNOT_EINVAL"]
    ELSE [ctx |-> set_application_error([c EXCEPT !.state = "OPENING",
                                                  !.stream_id = NoStream,
                                                  !.timestamp = now],
                                        "DOQ_NO_ERROR", "NULL"),
          ret |-> IF secret # "KNOT_EOK" THEN "KNOT_ENOMEM" ELSE "KNOT_EOK"]

----------------------------------------------------------------------------
(* The DoQ client: the driver operations, step by step.                    *)

StreamIds == {4 * i : i \in 0..(MaxStreams - 1)}

\* stream ids the library has opened
OpenedStreams == {s \in StreamIds : s < lib.next_id}

\* stream ids the library reports to stream_open_cb
StreamOpenIds == {1, 3, 4}

\* results of ngtcp2_conn_read_pkt when no callback failed
ReadPktResults == {0, NGTCP2_ERR_DROP_CONN, NGTCP2_ERR_PROTO, NGTCP2_ERR_NOMEM}

AlertValues == {"GNUTLS_A_HANDSHAKE_FAILURE"}

IdleOp == [name |-> "none", pc |-> "idle", datalen |-> 0, buf_len |-> 0,
           nwrite |-> 0, cbs |-> 0, fail |-> FALSE]

NoResult == [op |-> "none", ret |-> "none", len |-> 0, msg |-> <<>>]

\* the operation in progress returns ret to its caller
Return(ret) ==
    /\ op' = IdleOp
    /\ result' = [op |-> op.name, ret |-> ret, len |-> 0, msg |-> <<>>]

\* the connection ngtcp2_conn_client_new creates: no stream opened, nothing
\* written
NewConn == [next_id |-> 0, queried |-> {}, unacked |-> [s \in StreamIds |-> 0]]

\* quic_ctx_connect up to its loop; setup names the call that fails before
\* the loop, if any: the failures ahead of ngtcp2_conn_client_new leave
\* ctx->conn as it was, quic_setup_tls fails with the new connection in place
quic_ctx_connect ==
    /\ op.name = "none" /\ result.op = "none"
    /\ used.ops < MaxOps
    /\ used' = [used EXCEPT !.ops = @ + 1, !.pkts = 0]
    /\ \E setup \in {"ok", "knot_map_errno", "DNSSEC_ERROR", "KNOT_NET_ECONNECT",
                     "quic_setup_tls"} :
         /\ IF setup = "ok"
            THEN /\ op' = [IdleOp EXCEPT !.name = "connect", !.pc = "loop"]
                 /\ UNCHANGED result
            ELSE /\ op' = IdleOp
                 /\ result' = [op |-> "connect",
                               ret |-> IF setup = "quic_setup_tls"
                                       THEN "KNOT_NET_ECONNECT" ELSE setup,
                               len |-> 0, msg |-> <<>>]
         /\ lib' = IF setup \in {"ok", "quic_setup_tls"} THEN NewConn ELSE lib
    /\ hist' = [hist EXCEPT !.rejected = FALSE]
    /\ UNCHANGED <<ctx, peer, now, semvars, confvars>>

\* one pass of the loop of quic_ctx_connect, up to poll
connect_loop ==
    /\ op.name = "connect" /\ op.pc = "loop"
    /\ IF ctx.state = "CONNECTED"
       THEN /\ Return("KNOT_EOK")
            /\ used' = [used EXCEPT !.connected = TRUE]
            /\ UNCHANGED <<ctx, lib>>
       ELSE IF quic_timeout(ctx.timestamp, WaitSecs)
       THEN Return("KNOT_NET_ETIMEOUT") /\ UNCHANGED <<ctx, lib, used>>
       ELSE \E w \in WriterResults :
              LET r == quic_send(ctx, lib, w)
              IN /\ ctx' = r.ctx
                 /\ lib' = r.lib
                 /\ IF r.ret # "KNOT_EOK" THEN Return(r.ret)
                    ELSE op' = [op EXCEPT !.pc = "poll"] /\ UNCHANGED result
                 /\ UNCHANGED used
    /\ UNCHANGED <<peer, now, hist, semvars, confvars>>

\* quic_send_dns_query up to its loop
quic_send_dns_query ==
    /\ op.name = "none" /\ used.connected
    /\ used.ops < MaxOps
    /\ used' = [used EXCEPT !.ops = @ + 1, !.pkts = 0]
    /\ \E buf_null \in BOOLEAN, buf_len \in 1..MaxMsgLen :
         IF buf_null
         THEN /\ op' = IdleOp
              /\ result' = [op |-> "send_query", ret |-> "KNOT_NET_ESEND", len |-> 0, msg |-> <<>>]
              /\ UNCHANGED ctx
         ELSE /\ ctx' = [ctx EXCEPT !.sent = @ + buf_len + 2]
              /\ op' = [IdleOp EXCEPT !.name = "send_query", !.pc = "loop",
                                      !.datalen = buf_len + 2]
              /\ UNCHANGED result
    /\ hist' = [hist EXCEPT !.rejected = FALSE]
    /\ UNCHANGED <<lib, peer, now, semvars, confvars>>

\* a loop of quic_send_dns_query that returns once the query is handed to the
\* writer, without waiting for the acknowledgements
send_query_loop_no_wait ==
    /\ op.name = "send_query" /\ op.pc = "loop"
    /\ IF ctx.sent = 0 \/ op.datalen = 0
       THEN Return("KNOT_EOK") /\ UNCHANGED <<ctx, lib>>
       ELSE IF quic_timeout(ctx.timestamp, WaitSecs)
       THEN Return("KNOT_NET_ETIMEOUT") /\ UNCHANGED <<ctx, lib>>
       ELSE \E w \in WriterResults :
              LET r == quic_send_data(ctx, lib, op.datalen, w)
              IN /\ ctx' = r.ctx
                 /\ lib' = r.lib
                 /\ IF r.ret # "KNOT_EOK" THEN Return(r.ret)
                    ELSE /\ op' = [op EXCEPT !.pc = "poll", !.datalen = 0]
                         /\ UNCHANGED result
    /\ UNCHANGED <<peer, now, used, hist, semvars, confvars>>

\* one pass of the loop of quic_send_dns_query, up to poll
send_query_loop ==
    /\ op.name = "send_query" /\ op.pc = "loop"
    /\ IF ctx.sent = 0
       THEN Return("KNOT_EOK") /\ UNCHANGED <<ctx, lib>>
       ELSE IF quic_timeout(ctx.timestamp, WaitSecs)
       THEN Return("KNOT_NET_ETIMEOUT") /\ UNCHANGED <<ctx, lib>>
       ELSE \E w \in WriterResults :
              LET r == quic_send_data(ctx, lib, op.datalen, w)
              IN /\ ctx' = r.ctx
                 /\ lib' = r.lib
                 /\ IF r.ret # "KNOT_EOK" THEN Return(r.ret)
                    ELSE /\ op' = [op EXCEPT !.pc = "poll", !.datalen = 0]
                         /\ UNCHANGED result
    /\ UNCHANGED <<peer, now, used, hist, semvars, confvars>>

\* quic_respcpy at one of its two call sites in quic_recv_dns_response: a message
\* or an error is returned, nothing sends control on to next_pc
recv_response_respcpy(name, buf_len, next_pc) ==
    LET r == quic_respcpy(ctx, buf_len)
    IN /\ ctx' = r.ctx
       /\ IF r.ret # "0"
          THEN /\ op' = IdleOp
               /\ result' = [op |-> name, ret |-> r.ret, len |-> r.len, msg |-> r.msg]
               /\ hist' = [hist EXCEPT !.delivered =
                              IF r.ret = "LEN" THEN Append(@, r.msg) ELSE @,
                                       !.rejected = IF op.name = "none" THEN FALSE ELSE @]
          ELSE /\ op' = [IdleOp EXCEPT !.name = name, !.pc = next_pc, !.buf_len = buf_len]
               /\ hist' = [hist EXCEPT !.rejected = IF op.name = "none" THEN FALSE ELSE @]
               /\ UNCHANGED result

\* quic_recv_dns_response up to its loop
quic_recv_dns_response ==
    /\ op.name = "none" /\ used.connected
    /\ used.ops < MaxOps
    /\ used' = [used EXCEPT !.ops = @ + 1, !.pkts = 0]
    /\ \E buf_null \in BOOLEAN, buf_len \in 1..MaxMsgLen :
         IF buf_null
         THEN /\ op' = IdleOp
              /\ result' = [op |-> "recv_response", ret |-> "KNOT_EINVAL", len |-> 0, msg |-> <<>>]
              /\ hist' = [hist EXCEPT !.rejected = FALSE]
              /\ UNCHANGED ctx
         ELSE recv_response_respcpy("recv_response", buf_len, "loop")
    /\ UNCHANGED <<lib, peer, now, semvars, confvars>>

\* the loop condition of quic_recv_dns_response
recv_response_loop ==
    /\ op.name = "recv_response" /\ op.pc = "loop"
    /\ IF quic_timeout(ctx.timestamp, WaitSecs)
       THEN Return("KNOT_NET_ETIMEOUT")
       ELSE op' = [op EXCEPT !.pc = "poll"] /\ UNCHANGED result
    /\ UNCHANGED <<ctx, lib, peer, now, used, hist, semvars, confvars>>

\* quic_respcpy after quic_recv in the loop of quic_recv_dns_response
recv_response_copy ==
    /\ op.name = "recv_response" /\ op.pc = "respcpy"
    /\ recv_response_respcpy("recv_response", op.buf_len, "send")
    /\ UNCHANGED <<lib, peer, now, used, semvars, confvars>>

\* the send label of quic_recv_dns_response
recv_response_send ==
    /\ op.name = "recv_response" /\ op.pc = "send"
    /\ \E w \in WriterResults :
         LET r == quic_send(ctx, lib, w)
         IN /\ ctx' = r.ctx
            /\ lib' = r.lib
            /\ IF r.ret # "KNOT_EOK" THEN Return(r.ret)
               ELSE op' = [op EXCEPT !.pc = "loop"] /\ UNCHANGED result
    /\ UNCHANGED <<peer, now, used, hist, semvars, confvars>>

\* poll in the loop of a driver operation; elapsed seconds pass meanwhile
driver_poll ==
    /\ op.pc = "poll"
    /\ \E elapsed \in 0..1, ready \in {-1, 0, 1} :
         /\ now + elapsed <= MaxTime
         /\ now' = now + elapsed
         /\ IF ready < 0 THEN Return("knot_map_errno")
            ELSE IF ready = 0
            THEN /\ op' = [op EXCEPT !.pc = IF op.name = "recv_response" THEN "send" ELSE "loop"]
                 /\ UNCHANGED result
            ELSE op' = [op EXCEPT !.pc = "recvmsg"] /\ UNCHANGED result
    /\ UNCHANGED <<ctx, lib, peer, used, hist, semvars, confvars>>

\* quic_recv up to ngtcp2_conn_read_pkt: recvmsg and quic_get_ecn
quic_recv_recvmsg ==
    /\ op.pc = "recvmsg"
    /\ \E received \in BOOLEAN, cmsg \in BOOLEAN, ecn \in EcnValues :
         IF ~received
         THEN Return("knot_map_errno") /\ UNCHANGED <<ctx, used>>
         ELSE IF ~cmsg
         THEN /\ ctx' = [ctx EXCEPT !.ecn = 0]
              /\ Return("knot_map_errno")
              /\ UNCHANGED used
         ELSE /\ used.pkts < MaxPackets
              /\ used' = [used EXCEPT !.pkts = @ + 1]
              /\ ctx' = [ctx EXCEPT !.ecn = ecn]
              /\ op' = [op EXCEPT !.pc = "read_pkt", !.nwrite = DatagramSize,
                                  !.cbs = 0, !.fail = FALSE]
              /\ UNCHANGED result
    /\ UNCHANGED <<lib, peer, now, hist, semvars, confvars>>

\* ngtcp2_conn_read_pkt is ready to invoke one more callback
InReadPkt == op.pc = "read_pkt" /\ ~op.fail /\ op.cbs < MaxCallbacks

\* a callback has returned ret to ngtcp2_conn_read_pkt
CallbackDone(ret) ==
    /\ op' = [op EXCEPT !.cbs = @ + 1, !.fail = (ret # 0)]
    /\ UNCHANGED <<result, now, used, semvars, confvars>>

\* results of tcp_inbuf_update
InbufResults == {"KNOT_EOK", "KNOT_ENOMEM"}

read_pkt_recv_stream_data ==
    /\ InReadPkt
    /\ \E stream_id \in lib.queried, datalen \in 1..MaxChunk, inbuf \in InbufResults :
         /\ datalen <= Len(peer)
         /\ LET data == SubSeq(peer, 1, datalen)
                r == recv_stream_data_cb(ctx, stream_id, data, inbuf)
                parsed == stream_id = ctx.stream_id /\ r.ret = 0
            IN /\ ctx' = r.ctx
               /\ peer' = SubSeq(peer, datalen + 1, Len(peer))
               /\ hist' = [hist EXCEPT !.completed =
                              IF parsed THEN @ \o r.ctx.out_storage ELSE @,
                                       !.data_stream =
                              IF stream_id = ctx.stream_id THEN stream_id ELSE @,
                                       !.strayed =
                              \/ @
                              \/ stream_id # ctx.stream_id
                              \/ hist.data_stream \notin {NoStream, stream_id},
                                       !.failed = @ \/ r.ret # 0,
                                       !.prefix_cut =
                              @ \/ (parsed /\ Len(r.ctx.in_storage) = 1)]
               /\ CallbackDone(r.ret)
    /\ UNCHANGED lib

read_pkt_acked_stream_data_offset ==
    /\ InReadPkt
    /\ \E stream_id \in OpenedStreams :
         \E datalen \in 1..lib.unacked[stream_id] :
            LET r == acked_stream_data_offset_cb(ctx, stream_id, datalen)
            IN /\ ctx' = r.ctx
               /\ lib' = [lib EXCEPT !.unacked[stream_id] = @ - datalen]
               /\ CallbackDone(r.ret)
    /\ UNCHANGED <<peer, hist>>

read_pkt_stream_open ==
    /\ InReadPkt
    /\ \E stream_id \in StreamOpenIds, reason \in StaleReasons :
         LET r == stream_open_cb(ctx, stream_id, reason)
         IN /\ ctx' = r.ctx
            /\ hist' = [hist EXCEPT !.rejected = @ \/ stream_id % 4 # 0]
            /\ CallbackDone(r.ret)
    /\ UNCHANGED <<lib, peer>>

read_pkt_stream_close ==
    /\ InReadPkt
    /\ \E stream_id \in OpenedStreams :
         LET r == stream_close_cb(ctx, stream_id)
         IN /\ ctx' = r.ctx
            /\ CallbackDone(r.ret)
    /\ UNCHANGED <<lib, peer, hist>>

read_pkt_extend_max_bidi_streams ==
    /\ InReadPkt
    /\ \E max_streams \in 0..1, res \in OpenResults(lib) :
         LET r == extend_max_bidi_streams_cb(ctx, lib, max_streams, res)
         IN /\ ctx' = r.ctx
            /\ lib' = r.lib
            /\ CallbackDone(r.ret)
    /\ UNCHANGED <<peer, hist>>

read_pkt_handshake_confirmed ==
    /\ InReadPkt
    /\ LET r == handshake_confirmed_cb(ctx)
       IN /\ ctx' = r.ctx
          /\ hist' = [hist EXCEPT !.reconfirmed = @ \/ hist.dropped]
          /\ CallbackDone(r.ret)
    /\ UNCHANGED <<lib, peer>>

read_pkt_secret_func ==
    /\ InReadPkt
    /\ \E application \in BOOLEAN, rx \in SecretInstalls, tx \in SecretInstalls,
          res \in OpenResults(lib) :
         LET r == secret_func(ctx, lib, application, rx, tx, res)
         IN /\ ctx' = r.ctx
            /\ lib' = r.lib
            /\ CallbackDone(r.ret)
    /\ UNCHANGED <<peer, hist>>

read_pkt_alert_read_func ==
    /\ InReadPkt
    /\ \E alert \in AlertValues :
         LET r == alert_read_func(ctx, alert)
         IN /\ ctx' = r.ctx
            /\ CallbackDone(r.ret)
    /\ UNCHANGED <<lib, peer, hist>>

\* ngtcp2_conn_read_pkt returns and quic_recv with it; the driver goes on or
\* returns the error
quic_recv_return ==
    /\ op.pc = "read_pkt"
    /\ \E ret \in IF op.fail THEN {NGTCP2_ERR_CALLBACK_FAILURE} ELSE ReadPktResults :
         LET r == quic_recv(ctx, op.nwrite, ret)
         IN /\ ctx' = r.ctx
            /\ hist' = [hist EXCEPT !.dropped = @ \/ ret = NGTCP2_ERR_DROP_CONN]
            /\ IF r.ret # "KNOT_EOK" THEN Return(r.ret)
               ELSE /\ op' = [op EXCEPT !.pc = IF op.name = "recv_response"
                                                THEN "respcpy" ELSE "loop"]
                    /\ UNCHANGED result
    /\ UNCHANGED <<lib, peer, now, used, semvars, confvars>>

\* messages the peer may send: message i is MsgLen bytes of value i
PeerMsg(i, n) == [j \in 1..n |-> i]

RECURSIVE PeerStreamsOf(_)
PeerStreamsOf(i) ==
    IF i > MaxMsgs THEN {<<>>}
    ELSE {<<>>} \cup {Frame(PeerMsg(i, n)) \o rest :
                        n \in 1..MaxMsgLen, rest \in PeerStreamsOf(i + 1)}

PeerStreams == PeerStreamsOf(1)

QuicIdle ==
    /\ now = 0
    /\ ctx = quic_ctx_init(ZeroCtx, "ok", "KNOT_EOK").ctx
    /\ op = IdleOp
    /\ result = NoResult
    /\ lib = NewConn
    /\ used = [ops |-> 0, pkts |-> 0, connected |-> FALSE]
    /\ hist = [completed |-> <<>>, delivered |-> <<>>, rejected |-> FALSE,
               dropped |-> FALSE, reconfirmed |-> FALSE,
               original |-> peer, data_stream |-> NoStream, strayed |-> FALSE,
               prefix_cut |-> FALSE, failed |-> FALSE]

\* quic_ctx_init was called on zeroed memory; when it failed nothing else is
\* called
QuicInit ==
    /\ peer \in PeerStreams
    /\ now = 0
    /\ \E args \in {"ok", "NULL"}, secret \in {"KNOT_EOK", "DNSSEC_ERROR"} :
         LET r == quic_ctx_init(ZeroCtx, args, secret)
         IN /\ ctx = r.ctx
            /\ result = IF r.ret = "KNOT_EOK" THEN NoResult
                        ELSE [op |-> "init", ret |-> r.ret, len |-> 0, msg |-> <<>>]
    /\ op = IdleOp
    /\ lib = NewConn
    /\ used = [ops |-> 0, pkts |-> 0, connected |-> FALSE]
    /\ hist = [completed |-> <<>>, delivered |-> <<>>, rejected |-> FALSE,
               dropped |-> FALSE, reconfirmed |-> FALSE,
               original |-> peer, data_stream |-> NoStream, strayed |-> FALSE,
               prefix_cut |-> FALSE, failed |-> FALSE]

QuicNext ==
    \/ quic_ctx_connect
    \/ connect_loop
    \/ quic_send_dns_query
    \/ send_query_loop
    \/ quic_recv_dns_response
    \/ recv_response_loop
    \/ recv_response_copy
    \/ recv_response_send
    \/ driver_poll
    \/ quic_recv_recvmsg
    \/ read_pkt_recv_stream_data
    \/ read_pkt_acked_stream_data_offset
    \/ read_pkt_stream_open
    \/ read_pkt_stream_close
    \/ read_pkt_extend_max_bidi_streams
    \/ read_pkt_handshake_confirmed
    \/ read_pkt_secret_func
    \/ read_pkt_alert_read_func
    \/ quic_recv_return

vars == <<semvars, quicvars, confvars>>

\* a zone to check, no DoQ connection in use
InitSem ==
    /\ optional \in Options
    /\ SemInit
    /\ peer = <<>>
    /\ QuicIdle
    /\ ConfIdle

\* the semantic checker run on one zone
SpecSem == InitSem /\ [][SemNext]_vars

\* a DoQ connection, no zone being checked
InitQuic ==
    /\ peer \in PeerStreams
    /\ QuicInit
    /\ SemIdle
    /\ ConfIdle

\* one DoQ connection
SpecQuic == InitQuic /\ [][QuicNext]_vars

\* lookups of NS targets in the delegation zones below: the target exists
NsFound(i) == [find |-> "ZONE_NAME_FOUND", glue |-> i, encloser |-> i, wildcard |-> 0]

\* ... or does not exist below the closest encloser e, where *.<e> is node w (0: none)
NsNotFound(e, w) == [find |-> "ZONE_NAME_NOT_FOUND", glue |-> 0, encloser |-> e, wildcard |-> w]

\* the RRSets of a node that may serve as glue: address or not
GlueTypes == {{"A"}, {"AAAA"}, {"NSEC"}}

\* NS records on a checked node
MaxNs == 2

\* nodes of the delegation zones, in canonical order:
\*   1 example.  2 *.example.  3 other.example. (delegation)  4 ns.other.example.
\*   5 sub.example. (delegation)  6 ns.sub.example.
\* NS targets: out of zone, ns.sub.example., ns.other.example., x.sub.example.,
\* x.ns.sub.example., x.other.example., x.ns.other.example., x.example.
NsTargets == {NsOutOfZone, NsFound(6), NsFound(4), NsNotFound(5, 0), NsNotFound(6, 0),
              NsNotFound(3, 0), NsNotFound(4, 0), NsNotFound(1, 2)}

NsSets == UNION {[1..k -> NsTargets] : k \in 1..MaxNs}

WithNs(node, ns_rrs) == [node EXCEPT !.rrs["NS"] = ns_rrs]

DelegZones ==
    { [null |-> FALSE, dnssec |-> FALSE,
       nodes |-> << WithNs(Node("example.", {"APEX"}, {"SOA"}, 1, 0, FALSE), apex_ns),
                    Node("*.example.", {}, tw, 1, 0, FALSE),
                    Node("other.example.", {"DELEG"}, {"NS"}, 1, 0, FALSE),
                    Node("ns.other.example.", {"NONAUTH"}, to, 1, 0, FALSE),
                    WithNs(Node("sub.example.", {"DELEG"}, {}, 1, 0, FALSE), sub_ns),
                    Node("ns.sub.example.", {"NONAUTH"}, ts, 1, 0, FALSE) >>] :
      apex_ns \in {<<>>} \cup {<<t>> : t \in {NsOutOfZone, NsNotFound(5, 0), NsNotFound(1, 2)}},
      sub_ns \in NsSets, tw \in GlueTypes, to \in GlueTypes, ts \in GlueTypes }

\* a zone with delegations to check, no DoQ connection in use
InitDeleg ==
    /\ optional \in {"SEMCHECK_MANDATORY_ONLY", "SEMCHECK_FULL"}
    /\ zone \in DelegZones
    /\ handler = NewHandler(FALSE)
    /\ sem_pc = "start"
    /\ level = {}
    /\ walk_i = 0
    /\ sem_ret = "none"
    /\ fatal0 = FALSE
    /\ validator = <<>>
    /\ peer = <<>>
    /\ QuicIdle
    /\ ConfIdle

\* the semantic checker run on one zone with delegations
SpecDeleg == InitDeleg /\ [][SemNext]_vars

\* DS records on the delegation
MaxDs == 2

\* key tags, digest types (0 and 5 are not assigned to a supported algorithm)
\* and digest lengths of the DS records
KeyTags == {257, 65535}
DigestTypes == 0..5
DigestLens == {20, 32, 48}

DsRecords == [keytag : KeyTags, digest_type : DigestTypes, digest_len : DigestLens]

DsSets == UNION {[1..k -> DsRecords] : k \in 1..MaxDs}

WithRRSet(node, type, rrs) == [node EXCEPT !.rrs[type] = rrs]

\* an apex and one signed delegation
DsZones ==
    { [null |-> FALSE, dnssec |-> FALSE,
       nodes |-> << Node("example.", {"APEX"}, {"SOA", "NS"}, 1, 0, FALSE),
                    WithRRSet(Node("sub.example.", {"DELEG"}, {"NS"}, 1, 0, FALSE),
                              "DS", dss) >>] :
      dss \in DsSets }

\* a zone with a DS RRSet to check, no DoQ connection in use
InitDs ==
    /\ optional \in {"SEMCHECK_MANDATORY_ONLY", "SEMCHECK_FULL"}
    /\ zone \in DsZones
    /\ handler = NewHandler(FALSE)
    /\ sem_pc = "start"
    /\ level = {}
    /\ walk_i = 0
    /\ sem_ret = "none"
    /\ fatal0 = FALSE
    /\ validator = <<>>
    /\ peer = <<>>
    /\ QuicIdle
    /\ ConfIdle

\* the semantic checker run on one zone with a DS RRSet
SpecDs == InitDs /\ [][SemNext]_vars

\* records in a CDS, CDNSKEY or DNSKEY RRSet
MaxSubmission == 2

\* the sequences of at most m distinct elements of S
DistinctSeqs(S, m) ==
    UNION {{f \in [1..k -> S] : \A i, j \in 1..k : f[i] = f[j] => i = j} : k \in 0..m}

\* DNSKEY and CDNSKEY rdata: key stands for the bytes; dnssec_key_from_rdata
\* accepts the keys 1 and 2 and rejects the bytes of key 3
KeyRdata(k) == [key |-> k, del |-> FALSE, parsable |-> k # 3]

\* the delete CDNSKEY 00 00 03 00 00 (no public key)
DeleteCdnskey == [key |-> 0, del |-> TRUE, parsable |-> FALSE]

\* CDS rdata: the digest of type t of key k
CdsRdata(t, k) == [del |-> FALSE, digest_type |-> t, key |-> k]

\* the delete CDS 00 00 00 00 00
DeleteCds == [del |-> TRUE, digest_type |-> 0, key |-> 0]

DnskeySets == DistinctSeqs({KeyRdata(k) : k \in {1, 2}}, MaxSubmission)
CdnskeySets == DistinctSeqs({DeleteCdnskey} \cup {KeyRdata(k) : k \in {1, 2, 3}}, MaxSubmission)
CdsSets == DistinctSeqs({DeleteCds} \cup {CdsRdata(t, k) : t \in {2, 3}, k \in {1, 2}},
                        MaxSubmission)

\* an apex with the DNSKEYs and one more node; the CDS and CDNSKEY RRSets are
\* at the apex or at the other node
SubmissionZones ==
    { [null |-> FALSE, dnssec |-> FALSE,
       nodes |-> << WithRRSet(WithRRSet(WithRRSet(
                        Node("example.", {"APEX"}, {"SOA", "NS"}, 1, 0, FALSE),
                        "DNSKEY", dnskeys),
                        "CDS", IF at = ApexIdx THEN cdss ELSE <<>>),
                        "CDNSKEY", IF at = ApexIdx THEN cdnskeys ELSE <<>>),
                    WithRRSet(WithRRSet(
                        Node("a.example.", {}, {"A"}, 1, 0, FALSE),
                        "CDS", IF at = ApexIdx THEN <<>> ELSE cdss),
                        "CDNSKEY", IF at = ApexIdx THEN <<>> ELSE cdnskeys) >>] :
      dnskeys \in DnskeySets, cdss \in CdsSets, cdnskeys \in CdnskeySets, at \in 1..2 }

\* a zone with key submission records to check, no DoQ connection in use
InitSubmission ==
    /\ optional \in {"SEMCHECK_FULL", "SEMCHECK_DNSSEC", "SEMCHECK_AUTO_DNSSEC"}
    /\ zone \in {[z EXCEPT !.dnssec = d] : z \in SubmissionZones, d \in DnssecFlags(optional)}
    /\ handler = NewHandler(FALSE)
    /\ sem_pc = "start"
    /\ level = {}
    /\ walk_i = 0
    /\ sem_ret = "none"
    /\ fatal0 = FALSE
    /\ validator = <<>>
    /\ peer = <<>>
    /\ QuicIdle
    /\ ConfIdle

\* the semantic checker run on one zone with key submission records
SpecSubmission == InitSubmission /\ [][SemNext]_vars

\* values of the uint8_t flags and algorithm fields of the NSEC3PARAM record
Nsec3Flags == {0, 1, 2, 3, 128, 255}
Nsec3Algs == {0, 1, 2}

\* the NSEC3PARAM RRSet of the apex: absent, or one record
Nsec3Params == {<<>>} \cup {<<[flags |-> f, alg |-> a]>> : f \in Nsec3Flags, a \in Nsec3Algs}

Nsec3paramZones ==
    { [null |-> FALSE, dnssec |-> FALSE,
       nodes |-> << WithRRSet(Node("example.", {"APEX"}, {"SOA", "NS"}, 1, 0, FALSE),
                              "NSEC3PARAM", p),
                    Node("a.example.", {}, {"A"}, 1, 0, FALSE) >>] :
      p \in Nsec3Params }

\* a zone with or without NSEC3PARAM to check, no DoQ connection in use
InitNsec3param ==
    /\ optional \in Options
    /\ zone \in {[z EXCEPT !.dnssec = d] : z \in Nsec3paramZones, d \in DnssecFlags(optional)}
    /\ handler \in {NewHandler(f) : f \in BOOLEAN}
    /\ sem_pc = "start"
    /\ level = {}
    /\ walk_i = 0
    /\ sem_ret = "none"
    /\ fatal0 = handler.fatal_error
    /\ validator = <<>>
    /\ peer = <<>>
    /\ QuicIdle
    /\ ConfIdle

\* the semantic checker run on one zone with or without NSEC3PARAM
SpecNsec3param == InitNsec3param /\ [][SemNext]_vars

\* a context right after a successful connect that opened stream 0, at a time
\* when the deadline can still pass
ConnectedIdle ==
    /\ now \in 0..MaxTime
    /\ ctx = [state |-> "CONNECTED", stream_id |-> 0, sent |-> 0,
              in_storage |-> <<>>, out_storage |-> <<>>, out_storage_it |-> 0,
              last_err |-> [type |-> "APPLICATION", error_code |-> "DOQ_NO_ERROR",
                            reason |-> "NULL"],
              ecn |-> 2, timestamp |-> 0]
    /\ op = IdleOp
    /\ result = [op |-> "connect", ret |-> "KNOT_EOK", len |-> 0, msg |-> <<>>]
    /\ lib = [next_id |-> 4, queried |-> {}, unacked |-> [s \in StreamIds |-> 0]]
    /\ used = [ops |-> 1, pkts |-> 1, connected |-> TRUE]
    /\ hist = [completed |-> <<>>, delivered |-> <<>>, rejected |-> FALSE,
               dropped |-> FALSE, reconfirmed |-> FALSE,
               original |-> <<>>, data_stream |-> NoStream, strayed |-> FALSE,
               prefix_cut |-> FALSE, failed |-> FALSE]

\* a connection whose peer sends nothing: new, or just connected
InitQuicSilent ==
    /\ peer = <<>>
    /\ QuicIdle \/ ConnectedIdle
    /\ SemIdle
    /\ ConfIdle

\* poll with no datagram to read
poll_silent == driver_poll /\ op'.pc # "recvmsg"

\* poll during which the clock advances
poll_tick == poll_silent /\ now' = now + 1

QuicSilentNext ==
    \/ quic_ctx_connect
    \/ connect_loop
    \/ quic_send_dns_query
    \/ send_query_loop
    \/ quic_recv_dns_response
    \/ recv_response_loop
    \/ recv_response_send
    \/ poll_silent

\* one DoQ connection with a silent peer, a driver that keeps running and a
\* clock that keeps advancing
SpecQuicSilent ==
    InitQuicSilent /\ [][QuicSilentNext]_vars
    /\ WF_vars(QuicSilentNext) /\ SF_vars(poll_tick)

\* close(ctx): moves the state to CLOSED
quic_ctx_close ==
    /\ op.name = "none"
    /\ ctx.state # "CLOSED"
    /\ ctx' = [ctx EXCEPT !.state = "CLOSED"]
    /\ UNCHANGED <<op, result, lib, peer, now, used, hist, semvars, confvars>>

\* quic_ctx_init called between two operations on the context in use: the
\* fields it does not assign keep what the connection before left in them,
\* and ctx->conn is replaced by the quic_ctx_connect that follows
call_quic_ctx_init ==
    /\ op.name = "none"
    /\ \E args \in {"ok", "NULL"}, secret \in {"KNOT_EOK", "DNSSEC_ERROR"} :
         LET r == quic_ctx_init(ctx, args, secret)
         IN /\ ctx' = r.ctx
            /\ result' = IF r.ret = "KNOT_EOK" THEN NoResult
                         ELSE [op |-> "init", ret |-> r.ret, len |-> 0, msg |-> <<>>]
            /\ used' = [used EXCEPT !.connected = IF args = "NULL" THEN @ ELSE FALSE]
    /\ UNCHANGED <<op, lib, peer, now, hist, semvars, confvars>>

QuicClosingNext ==
    \/ QuicSilentNext
    \/ quic_ctx_close
    \/ call_quic_ctx_init

\* DoQ connections with a silent peer, one after the other on the same
\* context: the caller may close the context and may initialise it again
\* between operations
SpecQuicClosing == InitQuicSilent /\ [][QuicClosingNext]_vars

QuicClosedNext ==
    \/ quic_ctx_connect
    \/ connect_loop
    \/ quic_send_dns_query
    \/ send_query_loop
    \/ quic_recv_dns_response
    \/ recv_response_loop
    \/ recv_response_copy
    \/ recv_response_send
    \/ driver_poll
    \/ quic_recv_recvmsg
    \/ read_pkt_handshake_confirmed
    \/ quic_recv_return
    \/ quic_ctx_close

\* one context, initialised once, on which the caller may call close between
\* operations; the peer sends no stream data, its datagrams carry the
\* handshake only
SpecQuicClosed == InitQuicSilent /\ [][QuicClosedNext]_vars

----------------------------------------------------------------------------
(* The framing of a query, on its own: the caller's buf_len is a size_t.   *)

MaxBufLen == 65537

\* query_length = htons(buf_len): buf_len converted to uint16_t, the two
\* bytes as they lie in memory
query_length(buf_len) == be16(buf_len % 65536)

\* datav[] of quic_send_dns_query: the prefix and the caller's buffer
query_datav(buf_len) ==
    << [base |-> query_length(buf_len), len |-> 2],
       [base |-> "buf", len |-> buf_len] >>

\* a connected context and a caller about to send its first query
InitFraming ==
    /\ peer = <<>>
    /\ ConnectedIdle /\ now = 0
    /\ SemIdle
    /\ ConfIdle

\* the lengths the callers pass: the shortest buffers and the lengths on
\* either side of the largest a 16-bit prefix can hold
BufLens == (0..MaxMsgLen) \cup ((MaxBufLen - 2)..MaxBufLen)

\* quic_send_dns_query up to its first call of the writer: the vector, the
\* flag and the stream the writer is offered, and the bytes counted as sent
send_query_offer ==
    /\ op.name = "none" /\ used.ops < MaxOps
    /\ \E buf_len \in BufLens :
         /\ ctx' = [ctx EXCEPT !.sent = @ + buf_len + 2]
         /\ op' = [name |-> "send_query", pc |-> "loop", buf_len |-> buf_len,
                   datalen |-> buf_len + 2, nwrite |-> 0, cbs |-> 0, fail |-> FALSE,
                   datav |-> query_datav(buf_len), flags |-> "FIN",
                   stream |-> ctx.stream_id]
    /\ used' = [used EXCEPT !.ops = @ + 1, !.pkts = 0]
    /\ hist' = [hist EXCEPT !.rejected = FALSE]
    /\ UNCHANGED <<result, lib, peer, now, semvars, confvars>>

\* acked_stream_data_offset_cb during ngtcp2_conn_read_pkt, for an
\* acknowledgement of one byte of the query or of all that is outstanding
send_query_acked ==
    /\ InReadPkt
    /\ \E stream_id \in OpenedStreams :
         \E datalen \in {d \in {1, lib.unacked[stream_id]} : d <= lib.unacked[stream_id]} :
            LET r == acked_stream_data_offset_cb(ctx, stream_id, datalen)
            IN /\ ctx' = r.ctx
               /\ lib' = [lib EXCEPT !.unacked[stream_id] = @ - datalen]
               /\ CallbackDone(r.ret)
    /\ UNCHANGED <<peer, hist>>

FramingNext ==
    \/ send_query_offer
    \/ send_query_loop
    \/ driver_poll
    \/ quic_recv_recvmsg
    \/ send_query_acked
    \/ quic_recv_return

\* queries of the lengths a caller can pass, sent one after the other: the
\* writer, poll, quic_recv and the acknowledgements of the peer
SpecFraming == InitFraming /\ [][FramingNext]_vars

----------------------------------------------------------------------------
(* The ECN value of the datagrams, on its own: what quic_recv reads from   *)
(* the control message and what quic_send_data sets on the socket.         *)

MaxTos == 3

\* the ECN field of a datagram: the two low bits of the TOS / traffic class
TosValues == 0..MaxTos

\* quic_get_ecn: the byte of the IP_TOS / IPV6_TCLASS control message; 0 with
\* errno set when the message has none
quic_get_ecn(cmsg, tos) ==
    IF cmsg THEN [ecn |-> tos, errno |-> "0"] ELSE [ecn |-> 0, errno |-> "ENOENT"]

\* a connected context between two operations; nothing received or sent yet
InitEcn ==
    /\ peer = <<>>
    /\ now \in 0..MaxTime
    /\ ctx = [state |-> "CONNECTED", stream_id |-> 0, sent |-> 0,
              in_storage |-> <<>>, out_storage |-> <<>>, out_storage_it |-> 0,
              last_err |-> [type |-> "APPLICATION", error_code |-> "DOQ_NO_ERROR",
                            reason |-> "NULL"],
              ecn |-> 0, timestamp |-> 0]
    /\ op = [name |-> "none", pc |-> "idle", last |-> "none",
             rx_ecn |-> <<>>, tx_tos |-> <<>>]
    /\ result = [op |-> "connect", ret |-> "KNOT_EOK", len |-> 0, msg |-> <<>>]
    /\ lib = [next_id |-> 4, queried |-> {}, unacked |-> [s \in StreamIds |-> 0]]
    /\ used = [ops |-> 1, pkts |-> 1, connected |-> TRUE]
    /\ hist = [completed |-> <<>>, delivered |-> <<>>, rejected |-> FALSE,
               dropped |-> FALSE, reconfirmed |-> FALSE,
               original |-> <<>>, data_stream |-> NoStream, strayed |-> FALSE,
               prefix_cut |-> FALSE, failed |-> FALSE]
    /\ SemIdle
    /\ ConfIdle

\* quic_recv on a datagram whose control message carries tos (if cmsg) and on
\* which ngtcp2_conn_read_pkt returns ret; op.rx_ecn holds the ECN value of
\* the last datagram received since the last one sent
ecn_quic_recv ==
    /\ op.name = "none"
    /\ \E received \in BOOLEAN, cmsg \in BOOLEAN, tos \in TosValues,
          ret \in ReadPktResults :
         LET e == quic_get_ecn(cmsg, tos)
             r == quic_recv([ctx EXCEPT !.ecn = e.ecn], DatagramSize, ret)
         IN IF ~received
            THEN /\ op' = [op EXCEPT !.last = "recv_none"]
                 /\ UNCHANGED ctx
            ELSE IF e.ecn = 0 /\ e.errno # "0"
            THEN /\ ctx' = [ctx EXCEPT !.ecn = e.ecn]
                 /\ op' = [op EXCEPT !.last = "recv_errno", !.rx_ecn = <<>>]
            ELSE /\ ctx' = r.ctx
                 /\ op' = [op EXCEPT !.last = "received", !.rx_ecn = <<tos>>]
    /\ UNCHANGED <<result, lib, peer, now, used, hist, semvars, confvars>>

\* quic_send_data without stream data, given the run w of its loop;
\* ngtcp2_conn_writev_stream is handed &ctx->pi, not a copy, and
\* quic_set_enc is given ctx->pi.ecn after the call: op.tx_tos is the value
\* of the socket's IP_TOS / IPV6_TCLASS under which the datagram went out
ecn_quic_send ==
    /\ op.name = "none"
    /\ \E w \in WriterResults :
         LET r == quic_send(ctx, lib, w)
         IN /\ ctx' = r.ctx
            /\ lib' = r.lib
            /\ op' = IF w.pkts > 0
                     THEN [op EXCEPT !.last = "sent", !.tx_tos = <<r.ctx.ecn>>,
                                     !.rx_ecn = <<>>]
                     ELSE [op EXCEPT !.last = "send_none"]
    /\ UNCHANGED <<result, peer, now, used, hist, semvars, confvars>>

EcnNext ==
    \/ ecn_quic_recv
    \/ ecn_quic_send

\* datagrams received and sent on a connected context, in any order
SpecEcn == InitEcn /\ [][EcnNext]_vars

----------------------------------------------------------------------------
(* sem_checks_process called twice on the same zone, with the same option  *)
(* and time, each time with a handler of its own.                          *)

\* the first call has returned and the second has not been made
FirstRunDone == sem_pc = "done" /\ "first_ret" \notin DOMAIN hist

\* the caller's handler for the second call: new, set up as the first one was
SecondHandler == IF handler.null THEN NullHandler ELSE NewHandler(fatal0)

\* the caller keeps the first handler and the first return value and calls
\* sem_checks_process again with a handler of its own; the level, the walk
\* position and the return value are as the first call left them until the
\* second call sets up its data
sem_checks_process_again ==
    /\ FirstRunDone
    /\ hist' = [first_handler |-> handler, first_ret |-> sem_ret]
    /\ handler' = SecondHandler
    /\ sem_pc' = "start"
    /\ UNCHANGED <<zone, optional, level, walk_i, sem_ret, fatal0, validator,
                   ctx, op, result, lib, peer, now, used, confvars>>

SemTwiceNext ==
    \/ sem_checks_process_enter
    \/ zone_contents_apply_step
    \/ sem_checks_process_finish
    \/ sem_checks_process_again

\* the semantic checker run twice on one zone
SpecSemTwice == InitSem /\ [][SemTwiceNext]_vars

----------------------------------------------------------------------------
(* The configuration interface called in any order, as the tests do.       *)

\* the call made and what it returned, kept for the caller
Called(name, child, r) ==
    /\ conf.calls < MaxConfCalls
    /\ conf' = [r.conf EXCEPT !.call = [name |-> name, child |-> child],
                              !.ret = r.ret, !.calls = conf.calls + 1,
                              !.log = LET e == [name |-> name, child |-> child,
                                                ret |-> r.ret, txn |-> conf_get_txn(r.conf)]
                                          l == Append(conf.log, e)
                                      IN  IF Len(l) > MaxConfLog THEN Tail(l) ELSE l]
    /\ UNCHANGED <<semvars, quicvars>>

call_conf_io_begin ==
    \E child \in BOOLEAN, db_ok \in BOOLEAN :
        Called("begin", child, conf_io_begin(conf, child, db_ok))

call_conf_io_set ==
    \E item \in ConfItems, v \in ConfValues :
        Called("set", FALSE, conf_io_set(conf, item, v))

\* conf_io_unset on a value that is set, or with no transaction open
call_conf_io_unset ==
    \E item \in UnsetItems, data \in {<<>>} \cup {<<v>> : v \in ConfValues} :
        /\ conf.txn_stack # <<>> /\ item = "server.version" => txn_view(conf) # <<>>
        /\ Called("unset", FALSE, conf_io_unset(conf, item, data))

call_conf_io_commit ==
    \E child \in BOOLEAN : Called("commit", child, conf_io_commit(conf, child))

call_conf_io_abort ==
    \E child \in BOOLEAN : Called("abort", child, conf_io_abort(conf, child))

call_conf_refresh == Called("refresh", FALSE, conf_refresh(conf))

ConfNext ==
    \/ call_conf_io_begin
    \/ call_conf_io_set
    \/ call_conf_io_unset
    \/ call_conf_io_commit
    \/ call_conf_io_abort
    \/ call_conf_refresh

\* a new configuration, no zone being checked, no DoQ connection in use
InitConf ==
    /\ ConfIdle
    /\ SemIdle
    /\ peer = <<>>
    /\ QuicIdle

\* the configuration interface under any sequence of calls
SpecConf == InitConf /\ [][ConfNext]_vars

----------------------------------------------------------------------------
(* The writer under stream flow control, on its own: the library writes    *)
(* the offered stream data when the peer's credit for the stream covers    *)
(* it, and refuses with STREAM_DATA_BLOCKED otherwise.                     *)

\* the largest credit the peer grants on the stream, in bytes
MaxCredit == 4

\* no writer call yet
NoWriter == [pkts |-> 0, ecn |-> 0, end |-> "none"]

\* the runs of the loop of quic_send_data when the data vector has datalen
\* bytes (0 for NULL) and the stream has l.credit bytes of credit: data the
\* credit does not cover is refused with STREAM_DATA_BLOCKED before any
\* packet; data it covers goes into the first packet
writev_stream_results(l, datalen) ==
    {w \in WriterResults :
        IF datalen > 0 /\ l.credit < datalen
        THEN w.pkts = 0 /\ w.end \in LibEnds \ {"0"}
        ELSE /\ w.end # "NGTCP2_ERR_STREAM_DATA_BLOCKED"
             /\ (datalen > 0 /\ w.pkts = 0) => w.end # "0"}

\* a connected context with stream 0 open and some credit on it; w is the
\* result of the latest writer call and the operation that made it
InitFlow ==
    /\ peer = <<>>
    /\ now = 0
    /\ ctx = [state |-> "CONNECTED", stream_id |-> 0, sent |-> 0,
              in_storage |-> <<>>, out_storage |-> <<>>, out_storage_it |-> 0,
              last_err |-> [type |-> "APPLICATION", error_code |-> "DOQ_NO_ERROR",
                            reason |-> "NULL"],
              ecn |-> 2, timestamp |-> 0]
    /\ op = IdleOp
    /\ result = [op |-> "connect", ret |-> "KNOT_EOK", len |-> 0, msg |-> <<>>]
    /\ \E credit \in 0..MaxCredit :
         lib = [next_id |-> 4, queried |-> {}, unacked |-> [s \in StreamIds |-> 0],
                credit |-> credit]
    /\ used = [ops |-> 1, pkts |-> 1, connected |-> TRUE]
    /\ hist = [completed |-> <<>>, delivered |-> <<>>, rejected |-> FALSE,
               dropped |-> FALSE, reconfirmed |-> FALSE,
               original |-> <<>>, data_stream |-> NoStream, strayed |-> FALSE,
               prefix_cut |-> FALSE, failed |-> FALSE,
               w |-> [op |-> 0, res |-> NoWriter]]
    /\ SemIdle
    /\ ConfIdle

\* one pass of the loop of quic_send_dns_query, up to poll, the writer's
\* result decided by the credit
send_query_loop_flow ==
    /\ op.name = "send_query" /\ op.pc = "loop"
    /\ IF ctx.sent = 0
       THEN Return("KNOT_EOK") /\ UNCHANGED <<ctx, lib, hist>>
       ELSE IF quic_timeout(ctx.timestamp, WaitSecs)
       THEN Return("KNOT_NET_ETIMEOUT") /\ UNCHANGED <<ctx, lib, hist>>
       ELSE \E w \in writev_stream_results(lib, op.datalen) :
              LET r == quic_send_data(ctx, lib, op.datalen, w)
              IN /\ ctx' = r.ctx
                 /\ lib' = [r.lib EXCEPT !.credit =
                               IF packet_written(w) THEN @ - op.datalen ELSE @]
                 /\ hist' = [hist EXCEPT !.w = [op |-> used.ops, res |-> w]]
                 /\ IF r.ret # "KNOT_EOK" THEN Return(r.ret)
                    ELSE /\ op' = [op EXCEPT !.pc = "poll", !.datalen = 0]
                         /\ UNCHANGED result
    /\ UNCHANGED <<peer, now, used, semvars, confvars>>

\* ngtcp2_conn_read_pkt finds in the datagram a frame in which the peer
\* raises the credit of the stream; the library has no callback of the client
\* for it
read_pkt_max_stream_data ==
    /\ InReadPkt
    /\ \E credit \in (lib.credit + 1)..MaxCredit :
         lib' = [lib EXCEPT !.credit = credit]
    /\ CallbackDone(0)
    /\ UNCHANGED <<ctx, peer, hist>>

FlowNext ==
    \/ quic_send_dns_query
    \/ send_query_loop_flow
    \/ driver_poll
    \/ quic_recv_recvmsg
    \/ read_pkt_max_stream_data
    \/ read_pkt_acked_stream_data_offset
    \/ quic_recv_return

\* queries sent on a stream whose credit the peer raises when it likes
SpecFlow == InitFlow /\ [][FlowNext]_vars

----------------------------------------------------------------------------
(* Zones on which every check has something to report, and on which the    *)
(* delegation check and the submission check can fail.                     *)

\* a lookup of an NS target that fails inside zone_contents_find_dname
NsFailed == [find |-> "KNOT_EINVAL", glue |-> 0, encloser |-> ApexIdx, wildcard |-> 0]

\* a DS record of a digest type that is not supported
DsUnsupported == [keytag |-> 257, digest_type |-> 0, digest_len |-> 20]

\* CDS and CDNSKEY RRSets of the delegation: none, a CDS of a digest type for
\* which dnssec_key_create_ds fails, or a CDS without a CDNSKEY
SubmissionPairs ==
    { [cds |-> <<>>, cdnskey |-> <<>>],
      [cds |-> <<CdsRdata(3, 1)>>, cdnskey |-> <<KeyRdata(1)>>],
      [cds |-> <<CdsRdata(2, 1)>>, cdnskey |-> <<>>] }

\* nodes in canonical order: 1 example.  2 sub.example. (delegation)
\* 3 t.example. (two CNAME records); the apex with or without an NSEC3PARAM
\* record, which decides between the levels NSEC and NSEC3
DispatchZones ==
    { [null |-> FALSE, dnssec |-> FALSE,
       nodes |-> << WithRRSet(WithRRSet(WithRRSet(WithNs(
                        Node("example.", {"APEX"}, apex_types, 1, 0, FALSE), apex_ns),
                        "DNSKEY", <<KeyRdata(1)>>),
                        "CDS", apex_cds),
                        "NSEC3PARAM", apex_nsec3param),
                    WithRRSet(WithRRSet(WithRRSet(WithNs(
                        Node("sub.example.", {"DELEG"}, {}, 1, 0, FALSE), sub_ns),
                        "DS", dss),
                        "CDS", sub.cds),
                        "CDNSKEY", sub.cdnskey),
                    Node("t.example.", {}, {"CNAME"}, 2, 0, FALSE) >>] :
      apex_types \in {{"SOA"}, {}},
      apex_ns \in {<<>>, <<NsNotFound(1, 0)>>, <<NsOutOfZone>>},
      apex_cds \in {<<>>, <<DeleteCds>>},
      apex_nsec3param \in {<<>>, <<[flags |-> 0, alg |-> DNSSEC_NSEC3_ALGORITHM_SHA1]>>},
      sub_ns \in {<<NsNotFound(2, 0)>>, <<NsFailed>>, <<NsOutOfZone>>},
      dss \in {<<>>, <<DsUnsupported>>},
      sub \in SubmissionPairs }

\* a zone for every check, under every option; no DoQ connection in use
InitDispatch ==
    /\ optional \in Options
    /\ zone \in {[z EXCEPT !.dnssec = d] : z \in DispatchZones, d \in DnssecFlags(optional)}
    /\ handler = NewHandler(FALSE)
    /\ sem_pc = "start"
    /\ level = {}
    /\ walk_i = 0
    /\ sem_ret = "none"
    /\ fatal0 = FALSE
    /\ validator = <<>>
    /\ peer = <<>>
    /\ QuicIdle
    /\ ConfIdle

\* the semantic checker run on one of these zones
SpecDispatch == InitDispatch /\ [][SemNext]_vars

----------------------------------------------------------------------------
(* The CDS loop of check_submission step by step, with the key objects and *)
(* DS buffers it creates and frees.  op is the position in the loop: the   *)
(* CDS i, the CDNSKEY j, match and the value returned; hist counts the     *)
(* live keys, the live DS buffers and the keys created so far.             *)

\* zones whose apex has a DNSKEY, a CDS and a CDNSKEY RRSet
KeyZones ==
    {z \in SubmissionZones :
        /\ node_rdataset(z.nodes[ApexIdx], "DNSKEY") = <<KeyRdata(1)>>
        /\ node_rdataset(z.nodes[ApexIdx], "CDS") # <<>>
        /\ node_rdataset(z.nodes[ApexIdx], "CDNSKEY") # <<>>}

\* check_submission(zone->apex, data) has reached its second loop, the
\* CDNSKEYs without a DNSKEY reported
InitKeys ==
    /\ optional = "SEMCHECK_DNSSEC"
    /\ zone \in KeyZones
    /\ handler = submission_cdnskeys(zone.nodes[ApexIdx],
                                     node_rdataset(zone.nodes[ApexIdx], "CDNSKEY"),
                                     node_rdataset(zone.nodes[ApexIdx], "DNSKEY"),
                                     1, NewHandler(FALSE))
    /\ sem_pc = "walk"
    /\ level = {MANDATORY, OPTIONAL, NSEC}
    /\ walk_i = ApexIdx
    /\ sem_ret = "none"
    /\ fatal0 = FALSE
    /\ validator = <<>>
    /\ peer = <<>>
    /\ now = 0
    /\ ctx = quic_ctx_init(ZeroCtx, "ok", "KNOT_EOK").ctx
    /\ result = NoResult
    /\ lib = NewConn
    /\ used = [ops |-> 0, pkts |-> 0, connected |-> FALSE]
    /\ op = [name |-> "check_submission", pc |-> "cds", i |-> 1, j |-> 1,
             match |-> FALSE, ret |-> "none"]
    /\ hist = [keys |-> 0, ds |-> 0, created |-> 0]
    /\ ConfIdle

KeysUnchanged == UNCHANGED <<zone, optional, sem_pc, level, walk_i, sem_ret, fatal0,
                             validator, ctx, result, lib, peer, now, used, confvars>>

\* lines 305-313 and 346-361: the next CDS, the delete CDS skipped; after the
\* last CDS the delete records and the orphaned CDNSKEYs are reported and
\* KNOT_EOK returned
submission_next_cds ==
    /\ op.name = "check_submission" /\ op.pc = "cds"
    /\ LET node == zone.nodes[ApexIdx]
           cdss == node_rdataset(node, "CDS")
           cdnskeys == node_rdataset(node, "CDNSKEY")
           delete_cds == \E i \in 1..Len(cdss) : cdss[i].del
           delete_cdnskey == \E i \in 1..Len(cdnskeys) : cdnskeys[i].del
           h4 == IF \/ delete_cds /\ (~delete_cdnskey \/ Len(cdss) > 1)
                    \/ delete_cdnskey /\ (~delete_cds \/ Len(cdnskeys) > 1)
                 THEN cb(handler, node.owner, "CDNSKEY_INVALID_DELETE", NoInfo)
                 ELSE handler
           h5 == IF Len(cdss) < Len(cdnskeys)
                 THEN cb(h4, node.owner, "CDNSKEY_NO_CDS", NoInfo)
                 ELSE h4
       IN IF op.i > Len(cdss)
          THEN /\ op' = [op EXCEPT !.pc = "done", !.ret = KNOT_EOK]
               /\ handler' = h5
          ELSE IF cdss[op.i].del
          THEN /\ op' = [op EXCEPT !.i = @ + 1]
               /\ UNCHANGED handler
          ELSE /\ op' = [op EXCEPT !.pc = "cdnskey", !.j = 1, !.match = FALSE]
               /\ UNCHANGED handler
    /\ UNCHANGED hist
    /\ KeysUnchanged

\* the key dnssec_key_create_ds failed on is kept
submission_create_ds_leaky ==
    /\ op.name = "check_submission" /\ op.pc = "create_ds"
    /\ LET cds == node_rdataset(zone.nodes[ApexIdx], "CDS")[op.i]
       IN IF ~digest_support(cds.digest_type)
          THEN /\ op' = [op EXCEPT !.pc = "done", !.ret = "DNSSEC_INVALID_DS_ALGORITHM"]
               /\ UNCHANGED hist
          ELSE /\ hist' = [hist EXCEPT !.ds = @ + 1]
               /\ op' = [op EXCEPT !.pc = "cmp"]
    /\ UNCHANGED handler
    /\ KeysUnchanged

\* lines 316-324 and 342-345: the next CDNSKEY is parsed into a key, or skipped
\* when it cannot be; after the last CDNSKEY a CDS without a match is reported
submission_key_from_rdata ==
    /\ op.name = "check_submission" /\ op.pc = "cdnskey"
    /\ LET cdnskeys == node_rdataset(zone.nodes[ApexIdx], "CDNSKEY")
       IN IF op.j > Len(cdnskeys)
          THEN /\ handler' = IF op.match THEN handler
                             ELSE cb(handler, zone.nodes[ApexIdx].owner,
                                     "CDS_NOT_MATCH", NoInfo)
               /\ op' = [op EXCEPT !.pc = "cds", !.i = @ + 1]
               /\ UNCHANGED hist
          ELSE IF ~cdnskeys[op.j].parsable
          THEN /\ op' = [op EXCEPT !.j = @ + 1]
               /\ UNCHANGED <<handler, hist>>
          ELSE /\ hist' = [hist EXCEPT !.keys = @ + 1, !.created = @ + 1]
               /\ op' = [op EXCEPT !.pc = "create_ds"]
               /\ UNCHANGED handler
    /\ KeysUnchanged

\* lines 326-332: dnssec_key_create_ds; on failure the key is freed and the
\* error returned
submission_create_ds ==
    /\ op.name = "check_submission" /\ op.pc = "create_ds"
    /\ LET cds == node_rdataset(zone.nodes[ApexIdx], "CDS")[op.i]
       IN IF ~digest_support(cds.digest_type)
          THEN /\ hist' = [hist EXCEPT !.keys = @ - 1]
               /\ op' = [op EXCEPT !.pc = "done", !.ret = "DNSSEC_INVALID_DS_ALGORITHM"]
          ELSE /\ hist' = [hist EXCEPT !.ds = @ + 1]
               /\ op' = [op EXCEPT !.pc = "cmp"]
    /\ UNCHANGED handler
    /\ KeysUnchanged

\* lines 334-340: the digests are compared, the DS buffer and the key freed;
\* a match ends the inner loop
submission_binary_cmp ==
    /\ op.name = "check_submission" /\ op.pc = "cmp"
    /\ LET cds == node_rdataset(zone.nodes[ApexIdx], "CDS")[op.i]
           cdnskey == node_rdataset(zone.nodes[ApexIdx], "CDNSKEY")[op.j]
       IN /\ hist' = [hist EXCEPT !.ds = @ - 1, !.keys = @ - 1]
          /\ IF cds.key = cdnskey.key
             THEN op' = [op EXCEPT !.pc = "cds", !.i = @ + 1, !.match = TRUE]
             ELSE op' = [op EXCEPT !.pc = "cdnskey", !.j = @ + 1]
    /\ UNCHANGED handler
    /\ KeysUnchanged

KeysNext ==
    \/ submission_next_cds
    \/ submission_key_from_rdata
    \/ submission_create_ds
    \/ submission_binary_cmp

\* the second loop of check_submission on the apex of one zone
SpecKeys == InitKeys /\ [][KeysNext]_vars

----------------------------------------------------------------------------
(* quic_recv_dns_response on its own, with responses of different lengths, *)
(* buffers of different lengths, and datagrams that carry several          *)
(* responses at once.                                                      *)

\* bytes of a response, and of the caller's buffer
MaxRespLen == 2
\* bytes handed to one recv_stream_data callback
MaxBurst == 7

\* streams of one or two responses, response i being 0..MaxRespLen bytes i
RECURSIVE RespStreamsOf(_)
RespStreamsOf(i) ==
    IF i > MaxMsgs THEN {<<>>}
    ELSE {<<>>} \cup {Frame(PeerMsg(i, n)) \o rest :
                        n \in 0..MaxRespLen, rest \in RespStreamsOf(i + 1)}

\* the connection is up, the query was sent on stream 0, the responses are
\* on their way
InitRespcpy ==
    /\ peer \in RespStreamsOf(1) \ {<<>>}
    /\ now = 0
    /\ ctx = [state |-> "CONNECTED", stream_id |-> 0, sent |-> 0,
              in_storage |-> <<>>, out_storage |-> <<>>, out_storage_it |-> 0,
              last_err |-> [type |-> "APPLICATION", error_code |-> "DOQ_NO_ERROR",
                            reason |-> "NULL"],
              ecn |-> 2, timestamp |-> 0]
    /\ op = IdleOp
    /\ result = [op |-> "send_query", ret |-> "KNOT_EOK", len |-> 0, msg |-> <<>>]
    /\ lib = [next_id |-> 4, queried |-> {0}, unacked |-> [s \in StreamIds |-> 0]]
    /\ used = [ops |-> 0, pkts |-> 0, connected |-> TRUE]
    /\ hist = [completed |-> <<>>, delivered |-> <<>>, rejected |-> FALSE,
               dropped |-> FALSE, reconfirmed |-> FALSE,
               original |-> peer, data_stream |-> NoStream, strayed |-> FALSE,
               prefix_cut |-> FALSE, failed |-> FALSE, buf_len |-> 0, retried |-> <<>>]
    /\ SemIdle
    /\ ConfIdle

\* quic_recv_dns_response up to its loop, the buffer of 1..MaxRespLen bytes;
\* hist keeps the buffer length, and the message returned by this call when
\* the call before it returned KNOT_ENOMEM with the message pending
quic_recv_dns_response_sized ==
    /\ op.name = "none" /\ used.connected
    /\ used.ops < MaxOps
    /\ used' = [used EXCEPT !.ops = @ + 1, !.pkts = 0]
    /\ \E buf_null \in BOOLEAN, buf_len \in 1..MaxRespLen :
         IF buf_null
         THEN /\ op' = IdleOp
              /\ result' = [op |-> "recv_response", ret |-> "KNOT_EINVAL", len |-> 0, msg |-> <<>>]
              /\ hist' = [hist EXCEPT !.rejected = FALSE, !.buf_len = 0]
              /\ UNCHANGED ctx
         ELSE LET r == quic_respcpy(ctx, buf_len)
                  refused == /\ result.ret = "KNOT_ENOMEM"
                             /\ quic_respcpy(ctx, hist.buf_len).ret = "KNOT_ENOMEM"
              IN /\ ctx' = r.ctx
                 /\ hist' = [hist EXCEPT !.rejected = FALSE,
                                         !.buf_len = buf_len,
                                         !.delivered =
                                IF r.ret = "LEN" THEN Append(@, r.msg) ELSE @,
                                         !.retried =
                                IF refused /\ r.ret = "LEN" THEN <<r.msg>> ELSE @]
                 /\ IF r.ret # "0"
                    THEN /\ op' = IdleOp
                         /\ result' = [op |-> "recv_response", ret |-> r.ret,
                                       len |-> r.len, msg |-> r.msg]
                    ELSE /\ op' = [IdleOp EXCEPT !.name = "recv_response", !.pc = "loop",
                                                 !.buf_len = buf_len]
                         /\ UNCHANGED result
    /\ UNCHANGED <<lib, peer, now, semvars, confvars>>

\* recv_stream_data_cb invoked with all the peer has sent on the stream, up
\* to MaxBurst bytes
read_pkt_recv_stream_burst ==
    /\ InReadPkt
    /\ \E stream_id \in lib.queried, datalen \in 1..MaxBurst, inbuf \in InbufResults :
         /\ datalen = Len(peer)
         /\ LET data == SubSeq(peer, 1, datalen)
                r == recv_stream_data_cb(ctx, stream_id, data, inbuf)
            IN /\ ctx' = r.ctx
               /\ peer' = SubSeq(peer, datalen + 1, Len(peer))
               /\ hist' = [hist EXCEPT !.completed =
                              IF r.ret = 0 THEN @ \o r.ctx.out_storage ELSE @,
                                       !.data_stream = stream_id,
                                       !.failed = @ \/ r.ret # 0,
                                       !.prefix_cut =
                              @ \/ (r.ret = 0 /\ Len(r.ctx.in_storage) = 1)]
               /\ CallbackDone(r.ret)
    /\ UNCHANGED lib

RespcpyNext ==
    \/ quic_recv_dns_response_sized
    \/ recv_response_loop
    \/ driver_poll
    \/ quic_recv_recvmsg
    \/ read_pkt_recv_stream_burst
    \/ quic_recv_return
    \/ recv_response_copy
    \/ recv_response_send

\* calls of quic_recv_dns_response on a connection with a query sent
SpecRespcpy == InitRespcpy /\ [][RespcpyNext]_vars

----------------------------------------------------------------------------
(* Properties of the semantic checker, checked under SpecSem.              *)

HardFatal == {"SOA_NONE", "CNAME_EXTRA_RECORDS", "CNAME_MULTIPLE",
              "DNAME_CHILDREN", "DNAME_MULTIPLE", "DNAME_EXTRA_NS"}

\* number of findings with this code the handler received for this owner
Findings(owner, code) ==
    Cardinality({i \in 1..Len(handler.log) :
                    handler.log[i].owner = owner /\ handler.log[i].code = code})

\* number of findings with this code the handler received at all
FindingsOf(code) ==
    Cardinality({i \in 1..Len(handler.log) : handler.log[i].code = code})

EmittedHardFatal == \E i \in 1..Len(handler.log) : handler.log[i].code \in HardFatal

\* sem_checks_process has returned after checking a zone
RunDone == sem_pc = "done" /\ ~zone.null /\ ~handler.null

\* ... and the walk visited every node without an internal failure
WalkCompleted == RunDone /\ walk_i > Len(zone.nodes)

\* the walk has run every check of its level on node i
Visited(i) == sem_pc \in {"walk", "done"} /\ i < walk_i

Apex == zone.nodes[ApexIdx]

\* C1: for every zone whose apex has no SOA RRSet, sem_checks_process (non-null
\* handler, any option) returns KNOT_ESEMCHECK and the handler receives exactly
\* one SOA_NONE, at the apex owner; no other node produces SOA_NONE.
C1_NoSoaReturnsEsemcheck ==
    (RunDone /\ ~node_rrtype_exists(Apex, "SOA")) =>
        /\ sem_ret = "KNOT_ESEMCHECK"
        /\ Findings(Apex.owner, "SOA_NONE") = 1
        /\ FindingsOf("SOA_NONE") = 1

\* C3: when the walk completes without an internal failure and a hard-fatal code
\* was emitted, sem_checks_process returns KNOT_ESEMCHECK and verify_dnssec is
\* not called in that run.
C3_HardFatalGivesEsemcheck ==
    (WalkCompleted /\ EmittedHardFatal) =>
        (sem_ret = "KNOT_ESEMCHECK" /\ validator = <<>>)

\* C4: after a run started with handler.fatal_error = false, fatal_error is true
\* iff a code of the hard-fatal subset was passed to the callback in that run.
C4_FatalErrorIffHardFatal ==
    (RunDone /\ ~fatal0) => (handler.fatal_error <=> EmittedHardFatal)

\* C8: for every node with a CNAME RRSet that the walk has checked, exactly one
\* CNAME_EXTRA_RECORDS is emitted iff the node's RRSet count exceeds
\* 1 + (NSEC present) + (RRSIG present), and exactly one CNAME_MULTIPLE iff the
\* CNAME RRSet does not hold exactly one record; nodes without a CNAME RRSet
\* never produce a CNAME_* finding.
C8_CnameRule ==
    ~zone.null =>
    \A i \in 1..Len(zone.nodes) :
        LET node == zone.nodes[i]
            allowed == 1 + (IF node.rrs["NSEC"] # <<>> THEN 1 ELSE 0)
                         + (IF node.rrs["RRSIG"] # <<>> THEN 1 ELSE 0)
            types == Cardinality({t \in RRTypes : node.rrs[t] # <<>>})
        IN /\ node.rrs["CNAME"] = <<>> =>
                 /\ Findings(node.owner, "CNAME_EXTRA_RECORDS") = 0
                 /\ Findings(node.owner, "CNAME_MULTIPLE") = 0
           /\ (node.rrs["CNAME"] # <<>> /\ Visited(i)) =>
                 /\ Findings(node.owner, "CNAME_EXTRA_RECORDS") =
                        (IF types > allowed THEN 1 ELSE 0)
                 /\ Findings(node.owner, "CNAME_MULTIPLE") =
                        (IF Len(node.rrs["CNAME"]) # 1 THEN 1 ELSE 0)

\* C8 witness: a checked node holding CNAME, NSEC and one more type got its one
\* CNAME_EXTRA_RECORDS, and a checked node with two CNAME records got its
\* CNAME_MULTIPLE
C8_Witness ==
    /\ ~zone.null
    /\ \E i \in 1..Len(zone.nodes) :
          /\ Visited(i)
          /\ zone.nodes[i].rrs["CNAME"] # <<>>
          /\ zone.nodes[i].rrs["NSEC"] # <<>>
          /\ zone.nodes[i].rrs["A"] # <<>>
          /\ Len(zone.nodes[i].rrs["CNAME"]) > 1
          /\ Findings(zone.nodes[i].owner, "CNAME_EXTRA_RECORDS") = 1
          /\ Findings(zone.nodes[i].owner, "CNAME_MULTIPLE") = 1

\* C9: for every node with a DNAME RRSet that the walk has checked,
\* DNAME_EXTRA_NS is emitted iff the node is not the apex and has an NS RRSet,
\* DNAME_CHILDREN iff its child count exceeds the allowance (1 at an apex that
\* owns an NSEC3-side node, else 0), DNAME_MULTIPLE iff the DNAME RRSet does not
\* hold exactly one record; each at most once, and nodes without DNAME never
\* produce a DNAME_* finding.
C9_DnameRule ==
    ~zone.null =>
    \A i \in 1..Len(zone.nodes) :
        LET node == zone.nodes[i]
            allowance == IF i = ApexIdx /\ node.nsec3 THEN 1 ELSE 0
        IN /\ node.rrs["DNAME"] = <<>> =>
                 /\ Findings(node.owner, "DNAME_EXTRA_NS") = 0
                 /\ Findings(node.owner, "DNAME_CHILDREN") = 0
                 /\ Findings(node.owner, "DNAME_MULTIPLE") = 0
           /\ (node.rrs["DNAME"] # <<>> /\ Visited(i)) =>
                 /\ Findings(node.owner, "DNAME_EXTRA_NS") =
                        (IF i # ApexIdx /\ node.rrs["NS"] # <<>> THEN 1 ELSE 0)
                 /\ Findings(node.owner, "DNAME_CHILDREN") =
                        (IF node.children > allowance THEN 1 ELSE 0)
                 /\ Findings(node.owner, "DNAME_MULTIPLE") =
                        (IF Len(node.rrs["DNAME"]) # 1 THEN 1 ELSE 0)

\* C9 witness: the walk is over; the apex holds a DNAME, owns an NSEC3-side node
\* and has one child, which is within its allowance, while the other node holds
\* DNAME and NS, has an NSEC3-side node and one child, and got DNAME_EXTRA_NS and
\* DNAME_CHILDREN
C9_Witness ==
    /\ WalkCompleted
    /\ Apex.rrs["DNAME"] # <<>> /\ Apex.nsec3 /\ Apex.children = 1
    /\ Findings(Apex.owner, "DNAME_CHILDREN") = 0
    /\ LET node == zone.nodes[2]
       IN /\ node.rrs["DNAME"] # <<>> /\ node.rrs["NS"] # <<>>
          /\ node.nsec3 /\ node.children = 1
          /\ Findings(node.owner, "DNAME_EXTRA_NS") = 1
          /\ Findings(node.owner, "DNAME_CHILDREN") = 1


----------------------------------------------------------------------------
(* Properties of the DoQ client                                            *)

StateRank(st) == CASE st = "OPENING" -> 0 [] st = "CONNECTED" -> 1 [] st = "CLOSED" -> 2

\* C2: the connection state only moves forward along OPENING -> CONNECTED ->
\* CLOSED over connect, send_query, recv_response and the library callbacks;
\* no step, a handshake_confirmed callback on a CLOSED context included,
\* moves it backward.
C2_StateMonotonic == [][StateRank(ctx'.state) >= StateRank(ctx.state)]_vars

ServerCantOpenStreams ==
    [type |-> "APPLICATION", error_code |-> "DOQ_PROTOCOL_ERROR",
     reason |-> "Server can't open streams."]

\* C5: once the library has reported, during a driver operation, the opening of
\* a stream whose id is not a multiple of 4, the stream_open callback has failed
\* and the operation returns KNOT_NET_ERECV with last_err the APPLICATION error
\* DOQ_PROTOCOL_ERROR "Server can't open streams.".
C5_PeerStreamRejected ==
    hist.rejected =>
        /\ ctx.last_err = ServerCantOpenStreams
        /\ \/ op.pc = "read_pkt" /\ op.fail
           \/ op.name = "none" /\ result.ret = "KNOT_NET_ERECV"

\* C6 as amended: send_query adds len+2 to stream.sent, stream.sent never
\* increases while its loop runs, and stream.sent is zero whenever send_query
\* returns KNOT_EOK.
C6_SentZeroOnSuccess ==
    [][/\ (op.name = "none" /\ op'.name = "send_query") =>
              ctx'.sent = ctx.sent + op'.datalen /\ op'.datalen \in 3..(MaxMsgLen + 2)
       /\ op.name = "send_query" => ctx'.sent <= ctx.sent
       /\ (op.name = "send_query" /\ op'.name = "none" /\ result'.ret = "KNOT_EOK") =>
              ctx'.sent = 0]_vars

\* C6 witness: send_query has returned KNOT_EOK after the peer acknowledged the
\* query written into the stream.
C6_Witness ==
    /\ op.name = "none" /\ result.op = "send_query" /\ result.ret = "KNOT_EOK"
    /\ ctx.sent = 0 /\ ctx.stream_id # NoStream

\* C6 as stated: stream.sent is zero whenever send_query has returned.
C6_SentZeroOnReturn ==
    (op.name = "none" /\ result.op = "send_query") => ctx.sent = 0

\* bytes written into the current stream and not yet acknowledged by the peer
InFlight == IF ctx.stream_id = NoStream THEN 0 ELSE lib.unacked[ctx.stream_id]

\* C7: between driver operations stream.sent equals the bytes written into the
\* current stream minus the bytes the peer acknowledged on it, and is not
\* negative.
C7_SentIsWrittenMinusAcked ==
    op.name = "none" => (ctx.sent = InFlight /\ ctx.sent >= 0)

IsPrefix(s, t) == Len(s) <= Len(t) /\ SubSeq(t, 1, Len(s)) = s

\* C10: the messages recv_response has returned are, in order and without gap
\* or repetition, the first messages completed by the inbound reassembly.
C10_DeliveredInOrder == IsPrefix(hist.delivered, hist.completed)

\* the byte stream of a sequence of messages
RECURSIVE Frames(_)
Frames(msgs) == IF msgs = <<>> THEN <<>> ELSE Frame(Head(msgs)) \o Frames(Tail(msgs))

\* the buffer holds no complete frame
Incomplete(bytes) == Len(bytes) < 2 \/ Len(bytes) < 2 + bytes[1] * 256 + bytes[2]

\* C11: while all chunks of the peer's byte stream were handed to
\* recv_stream_data for the one current stream and tcp_inbuf_update took each
\* of them, however the stream was cut, the messages completed so far, the
\* partial frame kept in in_storage and the bytes still to come make up the
\* original stream, and in_storage holds no complete message: every message
\* is completed exactly once, whole, in order.
C11_ReassemblyAnySplit ==
    ~hist.strayed /\ ~hist.failed =>
        /\ Frames(hist.completed) \o ctx.in_storage \o peer = hist.original
        /\ Incomplete(ctx.in_storage)

\* C11 witness: two messages were completed on one stream and some chunk ended
\* inside a 2-byte length prefix.
C11_Witness ==
    ~hist.strayed /\ ~hist.failed /\ hist.prefix_cut /\ Len(hist.completed) >= 2
    /\ peer = <<>>

\* return values caused by the arguments or by the local system, not by the peer
LocalFailures == {"KNOT_NET_ESEND", "KNOT_ENOMEM", "knot_map_errno", "KNOT_EINVAL",
                  "KNOT_NET_ECONNECT", "DNSSEC_ERROR", "KNOT_ENOTSUP"}

\* C12: with a silent peer and an advancing clock every driver operation
\* returns; unless the arguments or the local system fail it returns
\* KNOT_NET_ETIMEOUT, and it returns that only when
\* now - timestamp >= wait seconds.
C12_Timeout ==
    /\ [](op.name = "none" /\ result.ret = "KNOT_NET_ETIMEOUT"
            => now - ctx.timestamp >= WaitSecs)
    /\ [](op.name = "none" /\ used.ops > (IF result.op = "connect" THEN 0 ELSE 1)
            => result.ret \in LocalFailures \cup {"KNOT_NET_ETIMEOUT"}
               \/ (result.op = "connect" /\ used.ops = 1 /\ ctx.state = "CONNECTED"))
    /\ \A name \in {"connect", "send_query", "recv_response"} :
          (op.name = name) ~> (op.name = "none" /\ result.op = name)

\* C12 witness: recv_response has returned KNOT_NET_ETIMEOUT after polls that
\* found nothing to read
C12_Witness ==
    /\ op.name = "none" /\ result.op = "recv_response"
    /\ result.ret = "KNOT_NET_ETIMEOUT" /\ used.pkts = 0
    /\ now - ctx.timestamp >= WaitSecs

\* the delegation whose subtree holds node i of the delegation zones, 0 for
\* the nodes above every delegation
Cut == <<0, 0, 3, 3, 5, 5>>

\* the NS target is below a delegation other than node n
BelowAnotherDelegation(n, ns) == Cut[ns.encloser] # 0 /\ Cut[ns.encloser] # n

\* the target node, or the wildcard node standing for it, has A or AAAA
TargetHasAddress(ns) ==
    LET g == IF ns.find = "ZONE_NAME_FOUND" THEN ns.glue ELSE ns.wildcard
    IN g # 0 /\ (node_rrtype_exists(zone.nodes[g], "A") \/ node_rrtype_exists(zone.nodes[g], "AAAA"))

\* the NS records of node n that are in the zone, not skipped, and without an
\* address at the target or its wildcard
GlueMissing(n, skipped(_, _)) ==
    LET ns_rrs == node_rdataset(zone.nodes[n], "NS")
    IN {i \in 1..Len(ns_rrs) :
          /\ ns_rrs[i].find # "KNOT_EOUTOFZONE"
          /\ ~skipped(n, ns_rrs[i])
          /\ ~TargetHasAddress(ns_rrs[i])}

\* node n is one the delegation check runs on
DelegChecked(n) == n = ApexIdx \/ ("DELEG" \in zone.nodes[n].flags /\ OPTIONAL \in level)

\* the findings of the delegation check after the walk, given which targets
\* are skipped
DelegationFindings(skipped(_, _)) ==
    /\ FindingsOf("NS_APEX") = (IF node_rrtype_exists(Apex, "NS") THEN 0 ELSE 1)
    /\ \A n \in 1..Len(zone.nodes) :
          Findings(zone.nodes[n].owner, "NS_GLUE")
              = (IF DelegChecked(n) THEN Cardinality(GlueMissing(n, skipped)) ELSE 0)

\* C13 as stated: after the walk, an apex without NS has exactly one NS_APEX,
\* and every checked node has one NS_GLUE at its owner for each of its NS
\* targets that is in the zone, not below another delegation, and without A
\* and AAAA at the target node or its wildcard.
C13_DelegationGlue == WalkCompleted => DelegationFindings(BelowAnotherDelegation)

\* the findings the handler received with one of these codes, in order
LogOf(codes) == SelectSeq(handler.log, LAMBDA f : f.code \in codes)

\* the digest length of each digest type
DsDigestLength == (1 :> 20) @@ (2 :> 32) @@ (3 :> 32) @@ (4 :> 48)

\* the findings the DS rule asks for one record of the node
DsFinding(owner, ds) ==
    IF ~digest_support(ds.digest_type)
    THEN <<[owner |-> owner, code |-> "DS_RDATA_ALG", info |-> keytag_info(ds.keytag)]>>
    ELSE IF DsDigestLength[ds.digest_type] # ds.digest_len
    THEN <<[owner |-> owner, code |-> "DS_RDATA_DIGLEN", info |-> keytag_info(ds.keytag)]>>
    ELSE <<>>

RECURSIVE DsFindings(_, _)
DsFindings(owner, dss) ==
    IF dss = <<>> THEN <<>> ELSE DsFinding(owner, Head(dss)) \o DsFindings(owner, Tail(dss))

\* C14: after a walk at the optional level, the DS findings are, record by
\* record, one DS_RDATA_ALG for an unsupported digest type, else one
\* DS_RDATA_DIGLEN iff the digest length differs from the table, each with
\* info "(keytag N)" of its record; a supported type with the table's length
\* gives nothing.
C14_DsRule ==
    (WalkCompleted /\ OPTIONAL \in level /\ Len(zone.nodes) = 2) =>
        LogOf({"DS_RDATA_ALG", "DS_RDATA_DIGLEN"})
            = DsFindings(zone.nodes[2].owner, node_rdataset(zone.nodes[2], "DS"))

\* C14 witness: a SHA-384 DS of 32 bytes after a DS of an unsupported type gave
\* DS_RDATA_ALG and then DS_RDATA_DIGLEN, each with its own key tag.
C14_Witness ==
    /\ WalkCompleted /\ OPTIONAL \in level /\ Len(zone.nodes) = 2
    /\ node_rdataset(zone.nodes[2], "DS")
         = <<[keytag |-> 257, digest_type |-> 5, digest_len |-> 32],
             [keytag |-> 65535, digest_type |-> 4, digest_len |-> 32]>>
    /\ handler.log = <<[owner |-> "sub.example.", code |-> "DS_RDATA_ALG",
                        info |-> keytag_info(257)],
                       [owner |-> "sub.example.", code |-> "DS_RDATA_DIGLEN",
                        info |-> keytag_info(65535)]>>

SubmissionCodes == {"CDS_NONE", "CDNSKEY_NONE", "DNSKEY_NONE", "CDNSKEY_NO_DNSKEY",
                    "CDS_NOT_MATCH", "CDNSKEY_INVALID_DELETE", "CDNSKEY_NO_CDS"}

\* the submission findings the handler received for node n, in order
SubmissionLog(n) ==
    SelectSeq(handler.log,
              LAMBDA f : f.owner = zone.nodes[n].owner /\ f.code \in SubmissionCodes)

\* the codes of a sequence of findings
CodesOf(log) == [i \in 1..Len(log) |-> log[i].code]

\* check_submission has been called on node n and has returned
SubmissionRan(n) ==
    /\ level \cap {NSEC, NSEC3} # {}
    /\ Visited(n) \/ (sem_pc = "done" /\ walk_i = n)

Cdss(n) == node_rdataset(zone.nodes[n], "CDS")
Cdnskeys(n) == node_rdataset(zone.nodes[n], "CDNSKEY")
Dnskeys == node_rdataset(Apex, "DNSKEY")

\* C17: once the submission check has run on a node, a node with CDNSKEY but no
\* CDS has exactly the one finding CDS_NONE, a node with CDS but no CDNSKEY
\* exactly the one finding CDNSKEY_NONE, and a node with neither has none.
C17_OneAbsent ==
    \A n \in 1..Len(zone.nodes) :
        SubmissionRan(n) =>
            /\ (Cdss(n) = <<>> /\ Cdnskeys(n) # <<>>) => CodesOf(SubmissionLog(n)) = <<"CDS_NONE">>
            /\ (Cdss(n) # <<>> /\ Cdnskeys(n) = <<>>) => CodesOf(SubmissionLog(n)) = <<"CDNSKEY_NONE">>
            /\ (Cdss(n) = <<>> /\ Cdnskeys(n) = <<>>) => SubmissionLog(n) = <<>>

\* C17 witness: the check has run on a zone without DNSKEY whose second node
\* has two CDNSKEYs and no CDS, and reported CDS_NONE there and nothing at the
\* apex.
C17_Witness ==
    /\ WalkCompleted /\ NSEC \in level /\ Len(zone.nodes) = 2
    /\ Dnskeys = <<>> /\ Cdss(2) = <<>> /\ Len(Cdnskeys(2)) = 2
    /\ CodesOf(SubmissionLog(2)) = <<"CDS_NONE">> /\ SubmissionLog(1) = <<>>

\* number of findings with this code among the submission findings of node n
SubmissionCount(n, code) ==
    Cardinality({i \in 1..Len(SubmissionLog(n)) : SubmissionLog(n)[i].code = code})

\* the non-delete CDNSKEY records of node n with no identical DNSKEY at the apex
UnpublishedCdnskeys(n) ==
    {i \in 1..Len(Cdnskeys(n)) :
        /\ Cdnskeys(n)[i] # DeleteCdnskey
        /\ \A j \in 1..Len(Dnskeys) : Dnskeys[j] # Cdnskeys(n)[i]}

\* C18: once the submission check has run on a node with both CDS and CDNSKEY,
\* there is one DNSKEY_NONE iff the apex has no DNSKEY RRSet, and one
\* CDNSKEY_NO_DNSKEY for each non-delete CDNSKEY that equals no apex DNSKEY;
\* delete CDNSKEYs are never counted.
C18_CdnskeyMatchesDnskey ==
    \A n \in 1..Len(zone.nodes) :
        (SubmissionRan(n) /\ Cdss(n) # <<>> /\ Cdnskeys(n) # <<>>) =>
            /\ SubmissionCount(n, "DNSKEY_NONE") = (IF Dnskeys = <<>> THEN 1 ELSE 0)
            /\ SubmissionCount(n, "CDNSKEY_NO_DNSKEY") = Cardinality(UnpublishedCdnskeys(n))

\* C18 witness: with DNSKEY 1 at the apex, the CDNSKEY set of key 2 and the
\* delete record got exactly one CDNSKEY_NO_DNSKEY and no DNSKEY_NONE.
C18_Witness ==
    /\ WalkCompleted /\ NSEC \in level
    /\ Dnskeys = <<KeyRdata(1)>>
    /\ Cdnskeys(1) = <<DeleteCdnskey, KeyRdata(2)>> /\ Cdss(1) # <<>>
    /\ SubmissionCount(1, "CDNSKEY_NO_DNSKEY") = 1
    /\ SubmissionCount(1, "DNSKEY_NONE") = 0

\* a delete record is present in the CDS or in the CDNSKEY RRSet of node n
DeletePresent(n) ==
    \/ \E i \in 1..Len(Cdss(n)) : Cdss(n)[i] = DeleteCds
    \/ \E i \in 1..Len(Cdnskeys(n)) : Cdnskeys(n)[i] = DeleteCdnskey

\* the CDS RRSet is the single delete CDS and the CDNSKEY RRSet the single
\* delete CDNSKEY
PureDeletePair(n) == Cdss(n) = <<DeleteCds>> /\ Cdnskeys(n) = <<DeleteCdnskey>>

\* dnssec_key_create_ds fails in the check of node n: a non-delete CDS of a
\* digest type that is not supported meets a CDNSKEY from which a key can be
\* made
DsCreationFails(n) ==
    \E i \in 1..Len(Cdss(n)), j \in 1..Len(Cdnskeys(n)) :
        /\ Cdss(n)[i] # DeleteCds /\ ~digest_support(Cdss(n)[i].digest_type)
        /\ Cdnskeys(n)[j].parsable

\* the delete rule for node n, given whether the rule is due there
DeleteRule(n, due) ==
    /\ SubmissionCount(n, "CDNSKEY_INVALID_DELETE")
         = (IF due /\ DeletePresent(n) /\ ~PureDeletePair(n) THEN 1 ELSE 0)
    /\ (PureDeletePair(n) /\ Dnskeys # <<>>) => SubmissionLog(n) = <<>>

\* C15 as stated: once the submission check has run on a node with both CDS
\* and CDNSKEY, there is exactly one CDNSKEY_INVALID_DELETE iff a delete
\* record is present on some side and the RRSets are not the pure delete pair
\* (none otherwise); the pure delete pair with a DNSKEY RRSet at the apex has
\* no submission finding at all.
C15_DeleteRule ==
    \A n \in 1..Len(zone.nodes) :
        (SubmissionRan(n) /\ Cdss(n) # <<>> /\ Cdnskeys(n) # <<>>) =>
            DeleteRule(n, TRUE)

\* C15 amended: the same when no DS creation fails for the node; when one
\* fails, the check has returned the error of dnssec_key_create_ds, the walk
\* has stopped on the node with that status, and there is no
\* CDNSKEY_INVALID_DELETE whatever delete records are present.
C15_DeleteRuleUnlessDsFails ==
    \A n \in 1..Len(zone.nodes) :
        (SubmissionRan(n) /\ Cdss(n) # <<>> /\ Cdnskeys(n) # <<>>) =>
            /\ DeleteRule(n, ~DsCreationFails(n))
            /\ DsCreationFails(n) <=>
                  (sem_pc = "done" /\ walk_i = n /\ sem_ret = "DNSSEC_INVALID_DS_ALGORITHM")

\* C15 witness: one delete CDS together with one non-delete CDNSKEY that is
\* published as DNSKEY got CDNSKEY_INVALID_DELETE, once, and nothing else.
C15_Witness ==
    /\ WalkCompleted /\ NSEC \in level
    /\ Cdss(1) = <<DeleteCds>> /\ Cdnskeys(1) = <<KeyRdata(1)>> /\ Dnskeys = <<KeyRdata(1)>>
    /\ CodesOf(SubmissionLog(1)) = <<"CDNSKEY_INVALID_DELETE">>

\* DS(ck, cs.digest_type) == cs: the CDNSKEY parses, the digest can be computed
\* and equals the CDS
DsOfKeyIs(ck, cs) == ck.parsable /\ digest_support(cs.digest_type) /\ cs.key = ck.key

\* the premises of the submission law for node n
SubmissionLawPremises(n) ==
    /\ \A i \in 1..Len(Cdnskeys(n)) : \E j \in 1..Len(Dnskeys) : Dnskeys[j] = Cdnskeys(n)[i]
    /\ \A i \in 1..Len(Cdss(n)) :
          Cdss(n)[i] # DeleteCds =>
              \E j \in 1..Len(Cdnskeys(n)) : DsOfKeyIs(Cdnskeys(n)[j], Cdss(n)[i])
    /\ Len(Cdss(n)) >= Len(Cdnskeys(n))

\* C16 as stated: if every CDNSKEY of a node is an apex DNSKEY, every
\* non-delete CDS is the DS of some CDNSKEY of the node, and there are at least
\* as many CDS as CDNSKEY records, the submission check emits no finding for
\* the node.
C16_SubmissionLaw ==
    \A n \in 1..Len(zone.nodes) :
        (SubmissionRan(n) /\ SubmissionLawPremises(n)) => SubmissionLog(n) = <<>>

\* C16 amended: the same, for nodes whose CDS and CDNSKEY RRSets hold no delete
\* record.
C16_SubmissionLawNoDelete ==
    \A n \in 1..Len(zone.nodes) :
        (SubmissionRan(n) /\ SubmissionLawPremises(n) /\ ~DeletePresent(n))
            => SubmissionLog(n) = <<>>

\* C16 witness: two CDNSKEYs, both published as DNSKEY, each with its CDS, have
\* been checked without a finding.
C16_Witness ==
    /\ WalkCompleted /\ NSEC \in level
    /\ Cdnskeys(2) = <<KeyRdata(1), KeyRdata(2)>>
    /\ Cdss(2) = <<CdsRdata(2, 2), CdsRdata(2, 1)>>
    /\ Dnskeys = <<KeyRdata(2), KeyRdata(1)>>
    /\ SubmissionLawPremises(2) /\ SubmissionLog(2) = <<>>

\* the NSEC3PARAM findings due for the zone, in the order the checks are made
Nsec3paramFindings ==
    LET p == node_rdataset(Apex, "NSEC3PARAM")
    IN IF ~dnssec_requested(zone, optional) \/ p = <<>> THEN <<>>
       ELSE (IF p[1].flags \notin {0, 1}
             THEN <<[owner |-> Apex.owner, code |-> "NSEC3PARAM_RDATA_FLAGS", info |-> NoInfo]>>
             ELSE <<>>)
            \o (IF p[1].alg # 1
                THEN <<[owner |-> Apex.owner, code |-> "NSEC3PARAM_RDATA_ALG", info |-> NoInfo]>>
                ELSE <<>>)

\* C19: when DNSSEC checking is in effect and the apex has NSEC3PARAM, the
\* handler holds, before the first node is walked and ever after, exactly one
\* NSEC3PARAM_RDATA_FLAGS at the apex iff a flag bit other than the low one is
\* set and exactly one NSEC3PARAM_RDATA_ALG at the apex iff the algorithm is not
\* SHA-1 (none of them otherwise); they are the only findings before the walk,
\* they leave the handler's error marks alone, and KNOT_ESEMCHECK is returned
\* only to a handler that was marked fatal before the run.
C19_Nsec3paramSanity ==
    (sem_pc \in {"walk", "done"} /\ ~zone.null /\ ~handler.null) =>
        /\ LogOf({"NSEC3PARAM_RDATA_FLAGS", "NSEC3PARAM_RDATA_ALG"}) = Nsec3paramFindings
        /\ (sem_pc = "walk" /\ walk_i = 1) =>
              /\ handler.log = Nsec3paramFindings
              /\ ~handler.error /\ handler.fatal_error = fatal0
        /\ sem_ret = "KNOT_ESEMCHECK" => fatal0

\* C19 witness: NSEC3PARAM with flags 128 and algorithm 2 gave both findings
\* before the walk, and the run, not marked fatal, did not return
\* KNOT_ESEMCHECK.
C19_Witness ==
    /\ RunDone /\ NSEC3 \in level /\ ~fatal0
    /\ node_rdataset(Apex, "NSEC3PARAM") = <<[flags |-> 128, alg |-> 2]>>
    /\ Len(handler.log) >= 2
    /\ CodesOf(SubSeq(handler.log, 1, 2)) = <<"NSEC3PARAM_RDATA_FLAGS", "NSEC3PARAM_RDATA_ALG">>
    /\ sem_ret # "KNOT_ESEMCHECK"

\* the finding the adapter owes for what the validator gave, <<>> for none
AdapterFinding(v) ==
    IF v.hint # NoHint
    THEN <<[owner |-> v.hint.node,
            code |-> CASE v.ret = "KNOT_DNSSEC_ENOSIG" -> "RRSIG_UNVERIFIABLE"
                       [] v.ret = "KNOT_DNSSEC_ENSEC_BITMAP" -> "NSEC_RDATA_BITMAP"
                       [] v.ret = "KNOT_DNSSEC_ENSEC_CHAIN" -> "NSEC_RDATA_CHAIN"
                       [] v.ret = "KNOT_DNSSEC_ENSEC3_OPTOUT" -> "NSEC3_INSECURE_DELEGATION_OPT"
                       [] OTHER -> "UNKNOWN",
            info |-> CASE v.hint.rrtype = 46 -> "RRSIG"
                       [] v.hint.rrtype = 47 -> "NSEC"
                       [] OTHER -> <<"TYPE", v.hint.rrtype>>]>>
    ELSE IF v.ret = "KNOT_INVALID_PUBLIC_KEY"
    THEN <<[owner |-> Apex.owner, code |-> "DNSKEY_INVALID", info |-> NoInfo]>>
    ELSE <<>>

\* the findings that are not the adapter's
WalkLog == SelectSeq(handler.log, LAMBDA f : f.code \in HardFatal \cup SubmissionCodes
                \cup {"NS_APEX", "NS_GLUE", "DS_RDATA_ALG", "DS_RDATA_DIGLEN",
                      "NSEC3PARAM_RDATA_FLAGS", "NSEC3PARAM_RDATA_ALG"})

\* C20: after the validator has returned (status, hint), the adapter has added
\* to the findings of the walk exactly the one finding owed - at the hinted
\* node with the mapped code and the hinted type as text, or DNSKEY_INVALID at
\* the apex for KNOT_INVALID_PUBLIC_KEY without a hint - and KNOT_EOK is
\* returned; in every other case nothing is added and the validator's status is
\* returned unchanged.
C20_ValidatorAdapter ==
    (RunDone /\ validator # <<>>) =>
        /\ Len(validator) = 1
        /\ handler.log = WalkLog \o AdapterFinding(validator[1])
        /\ sem_ret = (IF AdapterFinding(validator[1]) # <<>> THEN KNOT_EOK
                      ELSE validator[1].ret)

\* C20 witness: the validator returned KNOT_DNSSEC_ENSEC_CHAIN with a hint at
\* the second node for a type without a mnemonic; NSEC_RDATA_CHAIN was emitted
\* there with the type as text and KNOT_EOK returned.
C20_Witness ==
    /\ RunDone /\ Len(zone.nodes) = 2
    /\ validator = <<[ret |-> "KNOT_DNSSEC_ENSEC_CHAIN",
                      hint |-> [node |-> zone.nodes[2].owner, rrtype |-> 65280]]>>
    /\ handler.log # <<>>
    /\ handler.log[Len(handler.log)] = [owner |-> zone.nodes[2].owner,
                                        code |-> "NSEC_RDATA_CHAIN",
                                        info |-> <<"TYPE", 65280>>]
    /\ sem_ret = KNOT_EOK

\* DNSSEC checking is in effect for the run
DnssecInEffect ==
    optional = "SEMCHECK_DNSSEC" \/ (optional = "SEMCHECK_AUTO_DNSSEC" /\ zone.dnssec)

\* C21: the mask used for the walk contains MANDATORY; OPTIONAL iff the option
\* is not MANDATORY_ONLY; NSEC3 iff DNSSEC checking is in effect and the apex has
\* NSEC3PARAM; NSEC iff it is in effect and the apex has none; never both NSEC
\* and NSEC3, and neither without OPTIONAL.
C21_LevelMask ==
    (sem_pc \in {"walk", "done"} /\ ~zone.null /\ ~handler.null) =>
        /\ MANDATORY \in level
        /\ OPTIONAL \in level <=> optional # "SEMCHECK_MANDATORY_ONLY"
        /\ NSEC3 \in level <=> (DnssecInEffect /\ node_rrtype_exists(Apex, "NSEC3PARAM"))
        /\ NSEC \in level <=> (DnssecInEffect /\ ~node_rrtype_exists(Apex, "NSEC3PARAM"))
        /\ ~(NSEC \in level /\ NSEC3 \in level)
        /\ level \cap {NSEC, NSEC3} # {} => OPTIONAL \in level
        /\ level \subseteq {MANDATORY, OPTIONAL, NSEC, NSEC3}

\* C21 witness: a walk under SEMCHECK_AUTO_DNSSEC with zone.dnssec on and
\* NSEC3PARAM at the apex uses the mask MANDATORY | OPTIONAL | NSEC3.
C21_Witness ==
    /\ sem_pc = "walk" /\ optional = "SEMCHECK_AUTO_DNSSEC" /\ zone.dnssec
    /\ node_rrtype_exists(Apex, "NSEC3PARAM")
    /\ level = {MANDATORY, OPTIONAL, NSEC3}

\* a public operation is called in this step
OperationCalled == op.name = "none" /\ used'.ops = used.ops + 1

\* C22: a public operation called on a context whose state is CLOSED returns
\* KNOT_EINVAL at once, without sending or receiving and without changing the
\* context.
C22_ClosedIsTerminal ==
    [][(ctx.state = "CLOSED" /\ OperationCalled) =>
          /\ op'.name = "none"
          /\ result'.ret = "KNOT_EINVAL"
          /\ ctx' = ctx /\ lib' = lib]_vars

\* the value of a two-byte big-endian prefix
decode16(b) == b[1] * 256 + b[2]

\* C23: every query send_query offers to the stream is a two-element vector
\* with the FIN flag whose 16-bit big-endian prefix equals the number of
\* payload bytes that follow it, and equals the amount added to
\* bytes_in_flight minus 2.
C23_QueryFraming ==
    [][(op.name = "none" /\ op'.name = "send_query") =>
          /\ Len(op'.datav) = 2 /\ op'.flags = "FIN"
          /\ op'.datav[1].len = 2
          /\ decode16(op'.datav[1].base) = op'.datav[2].len
          /\ decode16(op'.datav[1].base) = (ctx'.sent - ctx.sent) - 2]_vars

\* C24: ECN echo: after a datagram is received with ECN value e, the next
\* datagram the client sends goes out with the socket's IP_TOS / IPV6_TCLASS
\* set to e.
C24_EcnEcho ==
    [][(op.name = "none" /\ op'.last = "sent" /\ op.rx_ecn # <<>>) =>
          op'.tx_tos = op.rx_ecn]_vars

StreamIdShape(id) == id = NoStream \/ (id >= 0 /\ id % 4 = 0)

\* C26: in every reachable state stream.id is -1 or a non-negative multiple
\* of 4; it leaves -1 only by a successful ngtcp2_conn_open_bidi_stream, which
\* yields the library's next client-initiated bidirectional id, and returns to
\* -1 only by a stream_close callback or by a STREAM_SHUT_WR result of the
\* writer (which also records a transport error and ends the operation with
\* NET_ESEND).
C26_StreamId ==
    /\ []StreamIdShape(ctx.stream_id)
    /\ [][ctx'.stream_id # ctx.stream_id =>
          \/ /\ ctx.stream_id = NoStream
             /\ op.pc = "read_pkt"
             /\ ctx'.stream_id = lib.next_id /\ lib'.next_id = lib.next_id + 4
          \/ /\ ctx'.stream_id = NoStream
             /\ \/ op.pc = "read_pkt"
                \/ /\ op.pc \in {"loop", "send"}
                   /\ ctx'.last_err.type = "TRANSPORT"
                   /\ result'.ret = "KNOT_NET_ESEND"]_vars

\* C26: two streams were opened, with ids 0 and 4, and the current one was
\* reset to -1
C26_Witness ==
    /\ ctx.stream_id = NoStream
    /\ lib.next_id = 8

\* C27: when quic_recv returns after ngtcp2_conn_read_pkt: if the library
\* reported DROP_CONN the state becomes CLOSED; if it reported a fatal error
\* (a failed callback makes it report CALLBACK_FAILURE) last_error becomes a
\* TRANSPORT close; in both cases the operation ends with NET_ERECV; on clean
\* completion the reader goes on and the context is unchanged.
C27_ReaderErrors ==
    [][(op.pc = "read_pkt" /\ op'.pc # "read_pkt") =>
          /\ (hist'.dropped /\ ~hist.dropped) =>
                (ctx'.state = "CLOSED" /\ result'.ret = "KNOT_NET_ERECV")
          /\ op.fail =>
                (ctx'.last_err.type = "TRANSPORT" /\ result'.ret = "KNOT_NET_ERECV")
          /\ op'.name # "none" => ctx' = ctx]_vars

\* C28: sem_checks_process with a null handler returns EINVAL, also when the
\* zone is null as well, and with a null zone and a handler returns
\* EEMPTYZONE; in both cases no level is computed, no node is walked, the
\* handler callback is not invoked and the validator is not called.
C28_ArgumentValidation ==
    (sem_pc = "done" /\ (handler.null \/ zone.null)) =>
        /\ sem_ret = IF handler.null THEN "KNOT_EINVAL" ELSE "KNOT_EEMPTYZONE"
        /\ level = {} /\ walk_i = 0
        /\ handler.log = <<>> /\ handler.fatal_error = fatal0
        /\ validator = <<>>

\* C28: the check has returned for a null handler and a null zone
C28_Witness ==
    /\ sem_pc = "done" /\ sem_ret = "KNOT_EINVAL"
    /\ handler.null /\ zone.null

\* the second call has returned
SecondRunDone == sem_pc = "done" /\ "first_ret" \in DOMAIN hist

\* knot_dnssec_validate_zone, called in both runs, gave the second the status
\* and the hint it gave the first
SameValidation == Len(validator) = 2 => validator[2] = validator[1]

TxnDepth(c) == Len(c.txn_stack)

\* C30: conf_io_begin(child) with no active transaction returns ENOTXN,
\* conf_io_begin(parent) with an active transaction returns ETXN,
\* conf_io_begin(child) at depth CONF_MAX_TXN_DEPTH returns EMANYTXN; a failing
\* begin leaves the transactions as they are, a successful one makes the
\* active transaction exactly one level deeper; the depth stays within
\* 0..CONF_MAX_TXN_DEPTH under any sequence of begin, set, unset, commit and
\* abort.
C30_Begin ==
    /\ [](TxnDepth(conf) \in 0..CONF_MAX_TXN_DEPTH)
    /\ [][(conf'.calls = conf.calls + 1 /\ conf'.call.name = "begin") =>
            /\ (conf'.call.child /\ TxnDepth(conf) = 0) =>
                  conf'.ret = "KNOT_CONF_ENOTXN"
            /\ (~conf'.call.child /\ TxnDepth(conf) > 0) =>
                  conf'.ret = "KNOT_CONF_ETXN"
            /\ (conf'.call.child /\ TxnDepth(conf) = CONF_MAX_TXN_DEPTH) =>
                  conf'.ret = "KNOT_CONF_EMANYTXN"
            /\ conf'.ret # "KNOT_EOK" => conf'.txn_stack = conf.txn_stack
            /\ conf'.ret = "KNOT_EOK" =>
                  /\ TxnDepth(conf') = TxnDepth(conf) + 1
                  /\ SubSeq(conf'.txn_stack, 1, TxnDepth(conf)) = conf.txn_stack]_vars

\* C30: at the full depth one more child transaction was refused
C30_Witness ==
    /\ TxnDepth(conf) = CONF_MAX_TXN_DEPTH
    /\ conf.call = [name |-> "begin", child |-> TRUE]
    /\ conf.ret = "KNOT_CONF_EMANYTXN"


----------------------------------------------------------------------------
(* Properties of nested transactions ended by abort and commit, checked    *)
(* under SpecConf.                                                         *)

\* the latest call of the interface was name(child)
ConfCall(name, child) == conf'.call = [name |-> name, child |-> child]

\* what the call left alone: the committed data and the read-only view
CommittedKept == conf'.db = conf.db /\ conf'.read_txn = conf.read_txn

\* C31: conf_io_abort(child) drops the innermost transaction with all it
\* holds, changes merged by a committed sub-child included, and leaves the
\* parent active with the values the parent had; conf_io_abort(parent) ends
\* every open transaction; neither changes read_txn; with no active
\* transaction abort returns ENOTXN and changes nothing.
C31_Abort ==
    [][ /\ (ConfCall("abort", TRUE) \/ ConfCall("abort", FALSE)) /\ conf.txn_stack = <<>>
            => /\ conf'.ret = "KNOT_CONF_ENOTXN"
               /\ conf'.txn_stack = <<>>
               /\ CommittedKept
        /\ ConfCall("abort", TRUE) /\ Len(conf.txn_stack) >= 2
            => /\ conf'.ret = "KNOT_EOK"
               /\ conf'.txn_stack = SubSeq(conf.txn_stack, 1, Len(conf.txn_stack) - 1)
               /\ CommittedKept
        /\ ConfCall("abort", FALSE) /\ conf.txn_stack # <<>>
            => /\ conf'.ret = "KNOT_EOK"
               /\ conf'.txn_stack = <<>>
               /\ CommittedKept
      ]_vars

\* C31 witness: a sub-child set a value and was committed into the child, the
\* child read that value, and the abort of the child left the parent active
\* without it.
C31_Witness ==
    /\ Len(conf.log) = 3
    /\ conf.log[1].name = "set" /\ conf.log[1].ret = "KNOT_EOK"
    /\ conf.log[1].txn.depth = 3
    /\ conf.log[2] = [name |-> "commit", child |-> TRUE, ret |-> "KNOT_EOK",
                      txn |-> [depth |-> 2, val |-> conf.log[1].txn.val]]
    /\ conf.log[3].name = "abort" /\ conf.log[3].child /\ conf.log[3].ret = "KNOT_EOK"
    /\ conf.log[3].txn = [depth |-> 1, val |-> <<>>]
    /\ conf.read_txn = <<>>


\* C32: conf_io_commit(child) writes what the child reads into its parent and
\* makes the parent active; conf_io_commit(parent) ends the transaction and
\* commits what the innermost transaction read, which a transaction begun
\* later reads; read_txn changes in conf_refresh only, where it takes the
\* committed values; with no active transaction commit returns ENOTXN and
\* changes nothing.
C32_Commit ==
    [][ /\ (ConfCall("commit", TRUE) \/ ConfCall("commit", FALSE)) /\ conf.txn_stack = <<>>
            => /\ conf'.ret = "KNOT_CONF_ENOTXN"
               /\ conf'.txn_stack = <<>>
               /\ CommittedKept
        /\ ConfCall("commit", TRUE) /\ Len(conf.txn_stack) >= 2
            => /\ conf'.ret = "KNOT_EOK"
               /\ Len(conf'.txn_stack) = Len(conf.txn_stack) - 1
               /\ txn_view(conf') = txn_view(conf)
               /\ \A i \in 1..(Len(conf.txn_stack) - 2) :
                      conf'.txn_stack[i] = conf.txn_stack[i]
               /\ CommittedKept
        /\ ConfCall("commit", FALSE) /\ conf.txn_stack # <<>>
            => /\ conf'.ret = "KNOT_EOK"
               /\ conf'.txn_stack = <<>>
               /\ conf'.db = txn_view(conf)
               /\ conf'.read_txn = conf.read_txn
        /\ ConfCall("begin", FALSE) /\ conf'.ret = "KNOT_EOK"
            => /\ Len(conf'.txn_stack) = 1
               /\ txn_view(conf') = conf.db
        /\ conf'.read_txn # conf.read_txn
            => /\ ConfCall("refresh", FALSE)
               /\ conf'.read_txn = conf.db
      ]_vars

\* C32 witness: a child that read a value was committed into the parent, the
\* parent was committed, and the transaction begun next reads that value
\* while read_txn still reads none.
C32_Witness ==
    /\ Len(conf.log) = 3
    /\ conf.log[1].name = "commit" /\ conf.log[1].child /\ conf.log[1].ret = "KNOT_EOK"
    /\ conf.log[1].txn.depth = 1 /\ conf.log[1].txn.val # <<>>
    /\ conf.log[2] = [name |-> "commit", child |-> FALSE, ret |-> "KNOT_EOK",
                      txn |-> [depth |-> 0, val |-> <<>>]]
    /\ conf.log[3] = [name |-> "begin", child |-> FALSE, ret |-> "KNOT_EOK",
                      txn |-> [depth |-> 1, val |-> conf.log[1].txn.val]]
    /\ conf.db = conf.log[1].txn.val
    /\ conf.read_txn = <<>>


----------------------------------------------------------------------------
(* Properties of the writer under flow control, checked under SpecFlow.    *)

\* the loop of quic_send_dns_query is about to call the writer
WriterCalled ==
    /\ op.name = "send_query" /\ op.pc = "loop"
    /\ ctx.sent # 0
    /\ ~quic_timeout(ctx.timestamp, WaitSecs)

\* bytes of the query the library has not taken yet
PendingQuery ==
    IF ctx.stream_id = NoStream THEN 0 ELSE ctx.sent - lib.unacked[ctx.stream_id]

\* C33: a writer call that ends with STREAM_DATA_BLOCKED is taken as OK, no
\* error is recorded and the loop goes on to poll; and when the query was
\* blocked and the peer has raised the credit to cover it, the next writer
\* call of the loop that goes on writes the query to the stream.
C33_BlockedQueryRetried ==
    [][ WriterCalled /\ op'.name = "send_query" =>
          /\ hist'.w.res.end = "NGTCP2_ERR_STREAM_DATA_BLOCKED"
                => ctx' = ctx /\ op'.pc = "poll" /\ result' = result
          /\ ( /\ hist.w.op = used.ops
               /\ hist.w.res.end = "NGTCP2_ERR_STREAM_DATA_BLOCKED"
               /\ PendingQuery > 0
               /\ lib.credit >= PendingQuery )
                => lib'.unacked[ctx.stream_id] = ctx.sent
      ]_vars


\* the close error set_transport_error records for the library error w
InferredClose(w) ==
    [type |-> "TRANSPORT", error_code |-> <<"infer", w>>, reason |-> "NULL"]

\* the writer's result res made the operation return ret
WriterReturned(ret) ==
    /\ op' = IdleOp
    /\ result' = [op |-> "send_query", ret |-> ret, len |-> 0, msg |-> <<>>]

\* the writer's result let the loop go on to poll
WriterOk == op' = [op EXCEPT !.pc = "poll", !.datalen = 0] /\ result' = result

\* C34: what the packet writer does with each result of writev_stream:
\* STREAM_DATA_BLOCKED gives OK and NOMEM gives ENOMEM, both with last_error
\* as it was; STREAM_SHUT_WR sets stream.id to -1 and, as any other negative
\* result, records a TRANSPORT close with the inferred code and gives
\* NET_ESEND; zero gives OK; a packet takes the bytes of the data vector,
\* which is cleared, and is sent under the ECN marking the library gave it,
\* after which the writer is called again; the mapped errno is returned when
\* the ECN option cannot be set, ENOTSUP when the address family has none,
\* and NET_ESEND when sendmsg fails.
C34_WriterResults ==
    [][ WriterCalled /\ hist' # hist =>
          LET w == hist'.w.res
              c1 == IF packet_written(w) THEN [ctx EXCEPT !.ecn = w.ecn] ELSE ctx
          IN /\ hist'.w.op = used.ops
             /\ IF packet_written(w) /\ ctx.stream_id # NoStream
                THEN lib'.unacked[ctx.stream_id]
                        = lib.unacked[ctx.stream_id] + op.datalen
                ELSE lib'.unacked = lib.unacked
             /\ w.end = "NGTCP2_ERR_STREAM_DATA_BLOCKED" => WriterOk /\ ctx' = c1
             /\ w.end = "NGTCP2_ERR_NOMEM"
                   => WriterReturned("KNOT_ENOMEM") /\ ctx' = c1
             /\ w.end = "NGTCP2_ERR_STREAM_SHUT_WR"
                   => /\ WriterReturned("KNOT_NET_ESEND")
                      /\ ctx' = [c1 EXCEPT !.stream_id = -1,
                                           !.last_err = InferredClose(w.end)]
             /\ w.end = "NGTCP2_ERR_PROTO"
                   => /\ WriterReturned("KNOT_NET_ESEND")
                      /\ ctx' = [c1 EXCEPT !.last_err = InferredClose(w.end)]
             /\ w.end = "0" => WriterOk /\ ctx' = c1
             /\ w.end = "setsockopt" => WriterReturned("knot_map_errno") /\ ctx' = c1
             /\ w.end = "KNOT_ENOTSUP" => WriterReturned("KNOT_ENOTSUP") /\ ctx' = c1
             /\ w.end = "sendmsg" => WriterReturned("KNOT_NET_ESEND") /\ ctx' = c1
      ]_vars

\* C34 witness: the writer was refused with STREAM_SHUT_WR while it offered
\* the query; the stream is forgotten, the close error recorded and the
\* operation has returned NET_ESEND with the query counted in stream.sent.
C34_Witness ==
    /\ hist.w = [op |-> used.ops,
                 res |-> [pkts |-> 0, ecn |-> 0, end |-> "NGTCP2_ERR_STREAM_SHUT_WR"]]
    /\ result = [op |-> "send_query", ret |-> "KNOT_NET_ESEND", len |-> 0, msg |-> <<>>]
    /\ ctx.stream_id = -1
    /\ ctx.last_err = InferredClose("NGTCP2_ERR_STREAM_SHUT_WR")
    /\ ctx.sent > 0 /\ lib.unacked[0] = 0


----------------------------------------------------------------------------
(* Properties of the dispatch of the checks, checked under SpecDispatch.   *)

DsCodes == {"DS_RDATA_ALG", "DS_RDATA_DIGLEN"}

\* the checks a node is due under the level mask lvl, in the order they run
ChecksDue(lvl) ==
    <<"check_soa", "check_cname", "check_dname", "check_delegation">>
    \o (IF OPTIONAL \in lvl THEN <<"check_ds">> ELSE <<>>)
    \o (IF lvl \cap {NSEC, NSEC3} # {} THEN <<"check_submission">> ELSE <<>>)

\* the checks fs run on node n one after the other, from check i on, up to
\* the first that does not return KNOT_EOK
RECURSIVE RunChecks(_, _, _, _, _, _)
RunChecks(fs, i, z, n, lvl, r) ==
    IF i > Len(fs) \/ r.ret # KNOT_EOK THEN r
    ELSE RunChecks(fs, i + 1, z, n, lvl, call_check(fs[i], z, n, lvl, r.h))

\* the findings that only some levels allow come with their level
GatedFindings ==
    \A i \in 1..Len(handler.log) :
        LET f == handler.log[i]
        IN /\ f.code \in DsCodes => OPTIONAL \in level
           /\ f.code \in SubmissionCodes => level \cap {NSEC, NSEC3} # {}
           /\ f.code = "NS_GLUE" /\ f.owner # zone.nodes[ApexIdx].owner
                 => OPTIONAL \in level

\* C35: on every walked node the checks that run are those whose level meets
\* the mask: check_soa, check_cname, check_dname and check_delegation always
\* (the delegation check of a node other than the apex reporting only with
\* OPTIONAL), check_ds with OPTIONAL, check_submission with NSEC or NSEC3; so
\* the handler gets no DS finding and no NS_GLUE of a delegation without
\* OPTIONAL, no submission finding without NSEC or NSEC3, and none of them
\* under SEMCHECK_MANDATORY_ONLY.
C35_LevelDispatch ==
    /\ [](GatedFindings
          /\ (optional = "SEMCHECK_MANDATORY_ONLY" /\ sem_pc # "start" /\ ~zone.null
                 => level = {MANDATORY}))
    /\ [][sem_pc = "walk" /\ walk_i <= Len(zone.nodes) =>
            LET r == RunChecks(ChecksDue(level), 1, zone, walk_i, level, Ok(handler))
            IN /\ handler' = r.h
               /\ (r.ret # KNOT_EOK => sem_ret' = r.ret)
               /\ (r.ret = KNOT_EOK => walk_i' = walk_i + 1)]_vars

\* C35 witness: the apex has an NSEC3PARAM record and DNSSEC checks were asked
\* for, so the level is MANDATORY, OPTIONAL and NSEC3; the walk went over a
\* delegation without glue, with an unsupported DS and a CDS without CDNSKEY,
\* and the handler got its NS_GLUE, its DS finding and its submission finding.
C35_Witness ==
    /\ WalkCompleted /\ level = {MANDATORY, OPTIONAL, NSEC3}
    /\ node_rdataset(zone.nodes[ApexIdx], "NSEC3PARAM") # <<>>
    /\ node_rdataset(zone.nodes[2], "DS") = <<DsUnsupported>>
    /\ node_rdataset(zone.nodes[2], "NS") = <<NsNotFound(2, 0)>>
    /\ Findings("sub.example.", "NS_GLUE") = 1
    /\ \E c \in DsCodes : Findings("sub.example.", c) = 1
    /\ \E c \in SubmissionCodes : Findings("sub.example.", c) = 1
    /\ Findings("t.example.", "CNAME_MULTIPLE") = 1

\* the same zone walked under SEMCHECK_MANDATORY_ONLY: the handler got the
\* findings of the apex and of the CNAME node and nothing of the delegation
MandatoryOnlyWalked ==
    /\ WalkCompleted /\ optional = "SEMCHECK_MANDATORY_ONLY"
    /\ node_rdataset(zone.nodes[2], "DS") = <<DsUnsupported>>
    /\ node_rdataset(zone.nodes[2], "NS") = <<NsNotFound(2, 0)>>
    /\ node_rdataset(zone.nodes[2], "CDS") # <<>>
    /\ Findings("example.", "SOA_NONE") = 1
    /\ Findings("example.", "NS_GLUE") = 1
    /\ Findings("t.example.", "CNAME_MULTIPLE") = 1
    /\ Len(handler.log) = 3


\* the walk stopped on node walk_i because a check failed there
WalkAborted == RunDone /\ walk_i >= 1 /\ walk_i <= Len(zone.nodes)

\* the statuses with which the checks fail on these zones: the lookup of the
\* delegation check and the DS creation of the submission check
CheckFailures == {"KNOT_EINVAL", "DNSSEC_INVALID_DS_ALGORITHM"}

\* the owners of the nodes after node i
LaterOwners(i) == {zone.nodes[j].owner : j \in (i + 1)..Len(zone.nodes)}

\* C36: when a check returns a status other than KNOT_EOK on a node, the
\* checks after it on that node and all checks of the later nodes do not
\* run, the validator is not called, and sem_checks_process returns that
\* status as it is, also when the handler already got a hard-fatal finding.
C36_WalkAbort ==
    /\ [](WalkAborted =>
            /\ sem_ret \in CheckFailures
            /\ validator = <<>>
            /\ \A i \in 1..Len(handler.log) :
                  LET f == handler.log[i]
                  IN /\ f.owner \notin LaterOwners(walk_i)
                     /\ (sem_ret = "KNOT_EINVAL" /\ f.owner = zone.nodes[walk_i].owner
                            => f.code \notin DsCodes \cup SubmissionCodes))
    /\ [][sem_pc = "walk" /\ walk_i <= Len(zone.nodes) =>
            LET r == RunChecks(ChecksDue(level), 1, zone, walk_i, level, Ok(handler))
            IN r.ret # KNOT_EOK =>
                  /\ sem_pc' = "done"
                  /\ sem_ret' = r.ret
                  /\ handler' = r.h
                  /\ walk_i' = walk_i
                  /\ validator' = validator]_vars

\* C36 witness: under SEMCHECK_DNSSEC the apex got SOA_NONE, then the lookup
\* of the delegation's NS target failed; the unsupported DS and the CDS of
\* the delegation and the CNAMEs of the last node were not looked at, the
\* validator was not called and KNOT_EINVAL was returned.
C36_Witness ==
    /\ WalkAborted /\ walk_i = 2
    /\ optional = "SEMCHECK_DNSSEC"
    /\ sem_ret = "KNOT_EINVAL"
    /\ node_rdataset(zone.nodes[2], "DS") = <<DsUnsupported>>
    /\ node_rdataset(zone.nodes[2], "CDS") # <<>>
    /\ handler.log = <<[owner |-> "example.", code |-> "SOA_NONE", info |-> NoInfo]>>
    /\ EmittedHardFatal
    /\ validator = <<>>


----------------------------------------------------------------------------
(* Properties of the opening of the stream, checked under SpecQuic.        *)

\* the two triggers leave the context and the library as they are
TriggersIdle(max_streams, applications) ==
    \A res \in OpenResults(lib) :
        /\ LET r == extend_max_bidi_streams_cb(ctx, lib, max_streams, res)
           IN r.ctx = ctx /\ r.lib = lib /\ r.ret = 0
        /\ \A application \in applications, tx \in {"NULL", "ok"} :
              LET r == secret_func(ctx, lib, application, "ok", tx, res)
              IN r.ctx = ctx /\ r.lib = lib /\ r.ret = 0

\* secret_func without an RX secret, or with one whose key does not install,
\* opens no stream
NoRxKeyIdle ==
    \A res \in OpenResults(lib), application \in BOOLEAN, rx \in {"NULL", "fail"},
       tx \in SecretInstalls :
        LET r == secret_func(ctx, lib, application, rx, tx, res)
        IN r.ctx = ctx /\ r.lib = lib

\* C37 as stated: ngtcp2_conn_open_bidi_stream succeeds at most once on a
\* connection, so the library never hands out a second stream id.
C37_OpensOnce == lib.next_id <= 4

\* C37 amended: ngtcp2_conn_open_bidi_stream succeeds only in a callback of
\* read_pkt and only while stream.id is -1, and stream.id then is the id the
\* library handed out; while a stream is open both triggers change nothing;
\* extend_max_bidi_streams with limit 0, an RX key below application level,
\* and a call without an RX key that installs change nothing at any time.  A
\* stream that was closed is followed by a new one at the next trigger.
C37_OpensWhenNoStream ==
    /\ [](/\ ctx.stream_id # NoStream => TriggersIdle(1, BOOLEAN)
          /\ TriggersIdle(0, {FALSE})
          /\ NoRxKeyIdle)
    /\ [][lib'.next_id # lib.next_id =>
            /\ op.pc = "read_pkt"
            /\ ctx.stream_id = NoStream
            /\ ctx'.stream_id = lib.next_id
            /\ lib'.next_id = lib.next_id + 4]_vars

\* C37 witness: stream 0 was opened and closed, and a later trigger opened
\* stream 4, which is the open stream now.
C37_Witness ==
    /\ ctx.stream_id = 4
    /\ lib.next_id = 8


----------------------------------------------------------------------------
(* Properties of the deadline in the driver loops, checked under SpecQuic. *)

\* the driver operations ops stand where the packet writer is invoked next
\* unless the loop ends
AtWriter(ops) == op.name \in ops /\ op.pc \in {"loop", "send"}

\* with the deadline passed, the operations ops do not invoke the writer: the
\* loop has ended with KNOT_EOK or the operation returns KNOT_NET_ETIMEOUT,
\* and the context and the library are as they were
NoWriterPastDeadline(ops) ==
    AtWriter(ops) /\ quic_timeout(ctx.timestamp, WaitSecs) =>
        /\ op' = IdleOp
        /\ ctx' = ctx /\ lib' = lib
        /\ result'.op = op.name
        /\ \/ result'.ret = "KNOT_NET_ETIMEOUT"
           \/ /\ result'.ret = "KNOT_EOK"
              /\ op.pc = "loop"
              /\ \/ op.name = "connect" /\ ctx.state = "CONNECTED"
                 \/ op.name = "send_query" /\ ctx.sent = 0

\* C38: in the loops of connect, send_query and recv_response the deadline
\* is tested before every invocation of the packet writer, poll included in
\* what precedes it: once now - timestamp >= wait, the writer is not invoked
\* again and the operation returns KNOT_NET_ETIMEOUT.
C38_DeadlineBeforeWriter ==
    [][NoWriterPastDeadline({"connect", "send_query", "recv_response"})]_vars


----------------------------------------------------------------------------
(* Properties of the keys of the submission check, checked under SpecKeys. *)

\* check_submission has returned, after the CDS loop or from within it
SubmissionLoopLeft == op.name = "check_submission" /\ op.pc = "done"

\* C39: whenever the CDS loop of check_submission is left - after matches,
\* after CDS records without a match, after CDNSKEYs that were skipped
\* because they do not parse, or by the early return when DS creation fails -
\* no key object and no DS buffer is live; between two CDNSKEYs none is live
\* either, and at most one of each ever is.  What is reported and returned
\* is what check_submission computes.
C39_KeysReleased ==
    /\ hist.keys \in 0..1 /\ hist.ds \in 0..1 /\ hist.ds <= hist.keys
    /\ op.pc \in {"cds", "cdnskey", "done"} => hist.keys = 0 /\ hist.ds = 0
    /\ SubmissionLoopLeft =>
          LET r == check_submission(zone, ApexIdx, level, NewHandler(FALSE))
          IN op.ret = r.ret /\ handler = r.h

\* C39 witness: one CDNSKEY was skipped, the first CDS matched the key made
\* of the other CDNSKEY, and for the second CDS the DS creation failed: two
\* keys were created, none is live, and the error was returned.
C39_Witness ==
    /\ SubmissionLoopLeft
    /\ op.ret = "DNSSEC_INVALID_DS_ALGORITHM"
    /\ node_rdataset(zone.nodes[ApexIdx], "CDNSKEY") = <<KeyRdata(3), KeyRdata(1)>>
    /\ op.i = 2 /\ op.j = 2
    /\ hist = [keys |-> 0, ds |-> 0, created |-> 2]


----------------------------------------------------------------------------
(* Properties of the delivery of responses, checked under SpecRespcpy.     *)

\* a message is pending: the vector exists and the iterator is inside it
PendingMsg == ctx.out_storage # <<>> /\ ctx.out_storage_it < Len(ctx.out_storage)

\* the next pending message
NextMsg == ctx.out_storage[ctx.out_storage_it + 1]

\* this step runs quic_respcpy with a buffer: at the start of
\* quic_recv_dns_response, or in its loop after quic_recv
RespcpyStep ==
    \/ op.name = "none" /\ used'.ops = used.ops + 1 /\ hist'.buf_len > 0
    \/ op.name = "recv_response" /\ op.pc = "respcpy"

\* the iterator has moved past the next pending message, and the vector was
\* released if and only if that was its last message
IteratorAdvanced ==
    /\ ctx'.out_storage_it = ctx.out_storage_it + 1
    /\ ctx'.out_storage_it <= Len(ctx.out_storage)
    /\ ctx'.out_storage =
          IF ctx.out_storage_it + 1 = Len(ctx.out_storage)
          THEN <<>> ELSE ctx.out_storage
    /\ ctx' = [ctx EXCEPT !.out_storage_it = ctx'.out_storage_it,
                          !.out_storage = ctx'.out_storage]

\* C40: while the vector exists the iterator is inside it.  When quic_respcpy
\* runs with a message pending that is longer than the buffer,
\* quic_recv_dns_response returns KNOT_ENOMEM, nothing is handed out and the
\* context (iterator and vector) is unchanged, so that the same message is
\* still the next one; when the buffer is long enough the call returns
\* exactly that message, the iterator advances by one, and the vector is
\* released if and only if this was its last message.  With nothing pending
\* quic_respcpy returns nothing and changes nothing, and the call goes on.
\* (A pending message of no bytes is passed over in the same way, the
\* iterator advancing by one, and since its length is the value for "no
\* message" the call goes on without returning it.)
C40_RefusedNotConsumed ==
    /\ [](ctx.out_storage # <<>> => ctx.out_storage_it < Len(ctx.out_storage))
    /\ [][RespcpyStep =>
            IF ~PendingMsg
            THEN /\ ctx' = ctx /\ hist'.delivered = hist.delivered
                 /\ result' = result /\ op'.name = "recv_response"
            ELSE IF hist'.buf_len < Len(NextMsg)
            THEN /\ result'.op = "recv_response" /\ result'.ret = "KNOT_ENOMEM"
                 /\ op'.name = "none"
                 /\ ctx' = ctx
                 /\ hist'.delivered = hist.delivered
            ELSE IF Len(NextMsg) = 0
            THEN /\ result' = result /\ op'.name = "recv_response"
                 /\ hist'.delivered = hist.delivered
                 /\ IteratorAdvanced
            ELSE /\ result' = [op |-> "recv_response", ret |-> "LEN",
                               len |-> Len(NextMsg), msg |-> NextMsg]
                 /\ op'.name = "none"
                 /\ hist'.delivered = Append(hist.delivered, NextMsg)
                 /\ IteratorAdvanced
         ]_vars

\* C40 witness: two responses arrived at once; a call with a buffer of one
\* byte was refused with KNOT_ENOMEM, the call after it with two bytes got
\* that first response of two bytes, and a third call got the last response
\* and released the vector.
C40_Witness ==
    /\ op.name = "none"
    /\ hist.retried = <<PeerMsg(1, 2)>>
    /\ hist.delivered = <<PeerMsg(1, 2), PeerMsg(2, 1)>>
    /\ hist.completed = hist.delivered
    /\ result.ret = "LEN" /\ result.msg = PeerMsg(2, 1)
    /\ ctx.out_storage = <<>> /\ ctx.out_storage_it = 2

====
